---- MODULE Spec2Model ----
(***************************************************************************)
(* A model of the sheet mapper of google-connections-mcp and of the sheet  *)
(* tools of server.py built on the same worksheet primitives.              *)
(*                                                                         *)
(*   src/src/google_connections_mcp/sheet_mapper.py   SheetMapper          *)
(*   src/sheet_mapper.py                              SheetMapper (older)  *)
(*   src/server.py                                    find_row_by_id,      *)
(*                                                    query_sheet,         *)
(*                                                    col_to_a1            *)
(*                                                                         *)
(* Python lists are TLA+ sequences (1-based); the code's 0-based positions *)
(* are kept as the code computes them and 1 is added at each access.       *)
(* An Optional is a sequence of length 0 (None) or 1.  A cell is a string. *)
(* A dict is the sequence of its <<key, value>> items in insertion order.  *)
(* A call's outcome is a record: status "ok" with the returned value, or   *)
(* status "raise" with the exception's message as a sequence of the parts  *)
(* the f-string is made of.                                                *)
(***************************************************************************)
EXTENDS Integers, Sequences, FiniteSets, TLC

VARIABLES
    sheet,      \* the remote worksheet: a sequence of rows, each a sequence of cells
    mapper,     \* per SheetMapper instance: its snapshot, or NotBuilt
    mres,       \* per SheetMapper instance: the outcome of its last call
    calls,      \* number of write calls made so far (bounds the run)
    tool,       \* the envelope returned by the last server tool call
    cl,         \* the column-letter loop: input, loop variable, result, position
    q,          \* query_sheet: its parameters, DataFrame and position
    auth        \* the GoogleAuthManager: its credentials and its last call

vars == <<sheet, mapper, mres, calls, tool, cl, q, auth>>

None == <<>>
Some(v) == <<v>>

Range(s) == {s[i] : i \in 1..Len(s)}

(***************************************************************************)
(* Column letters.  chr(code) for the codes 65..122.                       *)
(***************************************************************************)
AZ == <<"A","B","C","D","E","F","G","H","I","J","K","L","M",
        "N","O","P","Q","R","S","T","U","V","W","X","Y","Z">>

\* the characters of the codes 91..122 (code 96, the grave accent, by its name)
Ascii91 == <<"[","\\","]","^","_","grave",
             "a","b","c","d","e","f","g","h","i","j","k","l","m",
             "n","o","p","q","r","s","t","u","v","w","x","y","z">>

chr(code) == IF code <= 90 THEN AZ[code - 64] ELSE Ascii91[code - 90]

\* divmod(a, 26) for a >= 0: <<quotient, remainder>>
divmod26(a) == <<a \div 26, a % 26>>

\* plain base 26: divmod(col_num, 26), which has a zero digit
col_letter_body_plain26(col_num, result) ==
    LET dm == divmod26(col_num)
    IN  <<dm[1], <<chr(65 + dm[2])>> \o result>>

\* One pass of the body of `while col_num > 0` in SheetMapper._col_letter:
\* the pair <<col_num, result>> after the pass.
col_letter_body(col_num, result) ==
    LET dm == divmod26(col_num - 1)
    IN  <<dm[1], <<chr(65 + dm[2])>> \o result>>

RECURSIVE col_letter_loop(_, _)
col_letter_loop(col_num, result) ==
    IF col_num > 0
    THEN LET nx == col_letter_body(col_num, result)
         IN  col_letter_loop(nx[1], nx[2])
    ELSE result

\* SheetMapper._col_letter(col_num): the letters as a sequence, "AZ" = <<"A","Z">>
col_letter(col_num) == col_letter_loop(col_num, <<>>)

\* One pass of the body of `while col_idx > 0` in server.col_to_a1.
col_to_a1_body(col_idx, s) ==
    LET dm == divmod26(col_idx - 1)
    IN  <<dm[1], <<chr(65 + dm[2])>> \o s>>

RECURSIVE col_to_a1_loop(_, _)
col_to_a1_loop(col_idx, s) ==
    IF col_idx > 0
    THEN LET nx == col_to_a1_body(col_idx, s)
         IN  col_to_a1_loop(nx[1], nx[2])
    ELSE s

\* server.col_to_a1(col_idx)
col_to_a1(col_idx) == col_to_a1_loop(col_idx, <<>>)

(***************************************************************************)
(* The worksheet's side of an A1 address: the standard spreadsheet         *)
(* numbering of a column's letters (A = 1, ..., Z = 26, AA = 27), which is *)
(* how the sheet resolves the letters of a range it is asked to update.    *)
(***************************************************************************)
LetterDigit(c) == CHOOSE d \in 1..26 : AZ[d] = c

RECURSIVE A1Column(_)
A1Column(letters) ==
    IF letters = <<>> THEN 0
    ELSE 26 * A1Column(SubSeq(letters, 1, Len(letters) - 1))
         + LetterDigit(letters[Len(letters)])

(***************************************************************************)
(* Outcomes of a call, Python list indexing, and string joining.           *)
(***************************************************************************)
Ok(v) == [status |-> "ok", val |-> <<v>>, exc |-> "", msg |-> <<>>]
Raise(e, m) == [status |-> "raise", val |-> <<>>, exc |-> e, msg |-> m]

\* list[i] for a 0-based i >= 0: IndexError past the end
PyIndex(list, i) ==
    IF i < Len(list) THEN Ok(list[i + 1])
    ELSE Raise("IndexError", <<"list index out of range">>)

\* sep.join(parts), as the sequence of the parts and separators
RECURSIVE Join(_, _)
Join(sep, parts) ==
    IF Len(parts) = 0 THEN <<>>
    ELSE IF Len(parts) = 1 THEN <<parts[1]>>
    ELSE <<parts[1], sep>> \o Join(sep, Tail(parts))

\* Python dicts: d[k] = v keeps the place of a key already there
DictKeys(d) == {d[i][1] : i \in 1..Len(d)}

DictHas(d, k) == k \in DictKeys(d)

DictGet(d, k) == d[CHOOSE i \in 1..Len(d) : d[i][1] = k][2]

DictSet(d, k, v) ==
    IF DictHas(d, k)
    THEN [i \in 1..Len(d) |-> IF d[i][1] = k THEN <<k, v>> ELSE d[i]]
    ELSE Append(d, <<k, v>>)

(***************************************************************************)
(* The worksheet (gspread): get_all_values and update of one cell.         *)
(* A cell outside the stored rows is blank and reads as "".                *)
(***************************************************************************)
CellAt(ws, r, c) ==
    IF r \in 1..Len(ws) /\ c \in 1..Len(ws[r]) THEN ws[r][c] ELSE ""

Blank(n) == [i \in 1..n |-> ""]

PadRow(row, n) == IF Len(row) >= n THEN row ELSE row \o Blank(n - Len(row))

PadRows(ws, n) == IF Len(ws) >= n THEN ws ELSE ws \o [i \in 1..(n - Len(ws)) |-> <<>>]

\* what a cell shows: a formula cell shows the value it computes
displayed(cell) == IF cell = "=F" THEN "42" ELSE cell

\* worksheet.get_all_values(): the displayed value of every stored cell
get_all_values(ws) ==
    [r \in 1..Len(ws) |-> [c \in 1..Len(ws[r]) |-> displayed(ws[r][c])]]

\* worksheet.update("<letters><row>", [[value]]): the sheet stores value in the
\* one cell the address names; rows and cells before it that did not exist
\* come into being blank.
WsUpdateCell(ws, cell, value) ==
    LET c == A1Column(cell.letters)
        r == cell.row
        grown == PadRows(ws, r)
    IN  [grown EXCEPT ![r] = [PadRow(grown[r], c) EXCEPT ![c] = value]]

(***************************************************************************)
(* SheetMapper (src/src/google_connections_mcp/sheet_mapper.py)            *)
(***************************************************************************)
\* {col: idx for idx, col in enumerate(headers)}: a later idx replaces an earlier one
RECURSIVE column_map_from(_, _, _)
column_map_from(headers, i, acc) ==
    IF i > Len(headers) THEN acc
    ELSE column_map_from(headers, i + 1, DictSet(acc, headers[i], i - 1))

\* SheetMapper.__init__: the mapper built from the values read, or the error
SheetMapper_init(ws) ==
    LET data == get_all_values(ws)
    IN  IF data = <<>>
        THEN Raise("ValueError", <<"Worksheet is empty">>)
        ELSE Ok([data |-> data,
                 headers |-> data[1],
                 column_map |-> column_map_from(data[1], 1, <<>>),
                 rows |-> Tail(data)])

\* self.column_map.get(column_name)
get_column_index(self, column_name) ==
    IF DictHas(self.column_map, column_name)
    THEN Some(DictGet(self.column_map, column_name))
    ELSE None

has_column(self, column_name) == DictHas(self.column_map, column_name)

available_columns(self) ==
    IF self.headers # <<>> THEN Join(", ", self.headers) ELSE <<"none">>

require_column(self, column_name) ==
    LET idx == get_column_index(self, column_name)
    IN  IF idx = None
        THEN Raise("ValueError",
                   <<"Column '", column_name, "' not found. Available columns: ">>
                   \o available_columns(self))
        ELSE Ok(idx[1])

\* The older SheetMapper (src/sheet_mapper.py) has the same __init__ and
\* get_column_index; its require_column raises another message.
require_column_v0(self, column_name) ==
    LET idx == get_column_index(self, column_name)
    IN  IF idx = None
        THEN Raise("ValueError",
                   <<"Required column '", column_name, "' not found in sheet">>)
        ELSE Ok(idx[1])

\* without the test of the row's length
get_cell_value_unguarded(self, row_data, column_name) ==
    LET idx == get_column_index(self, column_name)
    IN  IF idx = None
        THEN Ok("")
        ELSE PyIndex(row_data, idx[1])

get_cell_value(self, row_data, column_name) ==
    LET idx == get_column_index(self, column_name)
    IN  IF idx = None \/ idx[1] >= Len(row_data)
        THEN Ok("")
        ELSE PyIndex(row_data, idx[1])

\* for row_num, row in enumerate(rows, start=2): the i-th row has number start+i-1
RowNumberStart == 2

\* numbering the data rows from 1, as if there were no header row
RECURSIVE find_row_scan_from_1(_, _, _, _)
find_row_scan_from_1(rows, idx, value, i) ==
    IF i > Len(rows) THEN None
    ELSE IF idx < Len(rows[i]) /\ rows[i][idx + 1] = value
         THEN Some(<<i, rows[i]>>)
         ELSE find_row_scan_from_1(rows, idx, value, i + 1)

RECURSIVE find_row_scan(_, _, _, _)
find_row_scan(rows, idx, value, i) ==
    IF i > Len(rows) THEN None
    ELSE IF idx < Len(rows[i]) /\ rows[i][idx + 1] = value
         THEN Some(<<RowNumberStart + i - 1, rows[i]>>)
         ELSE find_row_scan(rows, idx, value, i + 1)

find_row_by_value(self, column_name, value) ==
    LET idx == require_column(self, column_name)
    IN  IF idx.status = "raise" THEN idx
        ELSE Ok(find_row_scan(self.rows, idx.val[1], value, 1))

\* stopping at the first match
RECURSIVE find_all_scan_first_only(_, _, _, _, _)
find_all_scan_first_only(rows, idx, value, i, results) ==
    IF i > Len(rows) \/ results # <<>> THEN results
    ELSE find_all_scan_first_only(rows, idx, value, i + 1,
            IF idx < Len(rows[i]) /\ rows[i][idx + 1] = value
            THEN Append(results, <<RowNumberStart + i - 1, rows[i]>>)
            ELSE results)

RECURSIVE find_all_scan(_, _, _, _, _)
find_all_scan(rows, idx, value, i, results) ==
    IF i > Len(rows) THEN results
    ELSE find_all_scan(rows, idx, value, i + 1,
            IF idx < Len(rows[i]) /\ rows[i][idx + 1] = value
            THEN Append(results, <<RowNumberStart + i - 1, rows[i]>>)
            ELSE results)

find_all_rows_by_value(self, column_name, value) ==
    LET idx == require_column(self, column_name)
    IN  IF idx.status = "raise" THEN idx
        ELSE Ok(find_all_scan(self.rows, idx.val[1], value, 1, <<>>))

row_to_dict(self, row_data) ==
    [i \in 1..Len(self.column_map) |->
        <<self.column_map[i][1],
          IF self.column_map[i][2] < Len(row_data)
          THEN row_data[self.column_map[i][2] + 1] ELSE "">>]

\* counting the data rows only
get_next_empty_row_no_header(self) == Len(self.rows) + 1

get_next_empty_row(self) == Len(self.data) + 1

\* The loop of update_cells from entry i on.  updates is the dict as the
\* sequence of its <<column name, value>> items in insertion order.  Gives
\* the worksheet, the writes issued (address and value) and the outcome.
RECURSIVE update_cells_loop(_, _, _, _, _, _)
update_cells_loop(self, ws, row_number, updates, i, issued) ==
    IF i > Len(updates)
    THEN [ws |-> ws, issued |-> issued, out |-> Ok(None)]
    ELSE LET col_idx == require_column(self, updates[i][1])
         IN  IF col_idx.status = "raise"
             THEN [ws |-> ws, issued |-> issued, out |-> col_idx]
             ELSE LET col_letter_ == col_letter(col_idx.val[1] + 1)
                      cell == [letters |-> col_letter_, row |-> row_number]
                  IN  update_cells_loop(self,
                          WsUpdateCell(ws, cell, updates[i][2]),
                          row_number, updates, i + 1,
                          Append(issued, [cell |-> cell, value |-> updates[i][2]]))

\* writing the whole row back, blank where updates names no value
update_cells_whole_row(self, ws, row_number, updates) ==
    LET done == update_cells_loop(self, ws, row_number, updates, 1, <<>>)
        named == {DictGet(self.column_map, updates[i][1]) + 1 :
                    i \in {j \in 1..Len(updates) : has_column(self, updates[j][1])}}
        grown == PadRows(done.ws, row_number)
    IN  [done EXCEPT !.ws =
            [grown EXCEPT ![row_number] =
                [c \in 1..Len(self.headers) |->
                    IF c \in named THEN CellAt(done.ws, row_number, c) ELSE ""]]]

update_cells(self, ws, row_number, updates) ==
    update_cells_loop(self, ws, row_number, updates, 1, <<>>)

\* taking the row number from the sheet as it is now instead of the snapshot
append_row_fresh_count(self, ws, data_dict) ==
    LET next_row == Len(ws) + 1
        done == update_cells(self, ws, next_row, data_dict)
    IN  [ws |-> done.ws, issued |-> done.issued,
         out |-> IF done.out.status = "raise" THEN done.out ELSE Ok(next_row)]

append_row(self, ws, data_dict) ==
    LET next_row == get_next_empty_row(self)
        done == update_cells(self, ws, next_row, data_dict)
    IN  [ws |-> done.ws, issued |-> done.issued,
         out |-> IF done.out.status = "raise" THEN done.out ELSE Ok(next_row)]

\* re-reading the worksheet into the mapper after a write
snapshot_reloaded(self, ws) ==
    LET data == get_all_values(ws)
    IN  IF data = <<>> THEN self
        ELSE [data |-> data, headers |-> data[1],
              column_map |-> column_map_from(data[1], 1, <<>>), rows |-> Tail(data)]

\* The mapper object after update_cells or append_row has run against ws:
\* neither method assigns to self.data, self.headers, self.column_map or
\* self.rows, so it is the object as it was.
snapshot_kept(self, ws) == self

(***************************************************************************)
(* server.py: find_row_by_id.  The envelope is the JSON object returned.   *)
(***************************************************************************)
Failure(error) ==
    [success |-> FALSE, row_number |-> None, row_data |-> None, message |-> <<>>,
     data |-> None, error |-> error]

\* header.index(name): the first position holding name, or ValueError
RECURSIVE list_index(_, _, _)
list_index(list, x, i) ==
    IF i > Len(list) THEN Raise("ValueError", <<x, " is not in list">>)
    ELSE IF list[i] = x THEN Ok(i - 1)
    ELSE list_index(list, x, i + 1)

\* dict(zip(header, row)): pairs up to the shorter length, a later pair
\* replacing an earlier one with the same key
RECURSIVE dict_zip(_, _, _, _)
dict_zip(keys, values, i, acc) ==
    IF i > Len(keys) \/ i > Len(values) THEN acc
    ELSE dict_zip(keys, values, i + 1, DictSet(acc, keys[i], values[i]))

RECURSIVE find_row_by_id_scan(_, _, _, _, _)
find_row_by_id_scan(header, rows, id_col_index, id_value, i) ==
    IF i > Len(rows) THEN None
    ELSE IF id_col_index < Len(rows[i]) /\ rows[i][id_col_index + 1] = id_value
         THEN Some([success |-> TRUE,
                    row_number |-> Some(RowNumberStart + i - 1),
                    row_data |-> Some(dict_zip(header, rows[i], 1, <<>>)),
                    message |-> <<>>, data |-> None, error |-> <<>>])
         ELSE find_row_by_id_scan(header, rows, id_col_index, id_value, i + 1)

\* upstream is the outcome of opening the worksheet and reading it: any
\* exception ends in the handler's `except Exception`.
find_row_by_id(ws, upstream, id_column, id_value) ==
    IF upstream # "ok" THEN Failure(<<upstream>>)
    ELSE LET all_values == get_all_values(ws)
         IN  IF all_values = <<>> THEN Failure(<<"Worksheet is empty">>)
             ELSE LET header == all_values[1]
                      id_col_index == list_index(header, id_column, 1)
                  IN  IF id_col_index.status = "raise"
                      THEN Failure(<<"Column '", id_column, "' not found">>)
                      ELSE LET hit == find_row_by_id_scan(header, Tail(all_values),
                                          id_col_index.val[1], id_value, 1)
                           IN  IF hit # None THEN hit[1]
                               ELSE Failure(<<"No row found with ", id_column,
                                              "='", id_value, "'">>)

(***************************************************************************)
(* Bounds and the values the calls are made with.                          *)
(***************************************************************************)
MaxCalls == 2          \* write calls in one run
MaxColNum == 720       \* column numbers given to the letter conversion (ZZ = 702)

Mappers == {"m1", "m2"}

\* row numbers given to update_cells: the header row, data rows, a row past the end
RowNumbers == {1, 3, 7}

ColumnNames == {"ID", "Task", "Formula", "Nope"}
CellValues == {"1", "2", "a", ""}

InitSheets ==
    { <<>>,
      << <<>> >>,
      << <<"Task", "Formula">>, <<"a", "=F">> >>,
      << <<"ID", "Task", "Formula">>, <<"1", "a", "=F">>, <<"2", "b", "=F">>,
         <<"3", "a", "=F">>, <<"1", "c", "=F">> >>,
      << <<"ID", "Task", "Formula">>, <<"1", "a">>, <<"1">>, <<>>, <<"2", "a", "=F">> >>,
      << <<"ID", "Task", "ID">>, <<"1", "a", "2">>, <<"2", "b", "1">> >> }

\* dicts given to update_cells and append_row, as their items in order
UpdateDicts ==
    { <<>>,
      << <<"Task", "Buy milk">> >>,
      << <<"Task", "x">>, <<"ID", "9">> >>,
      << <<"ID", "7">>, <<"Nope", "y">>, <<"Task", "z">> >> }

Upstream == {"ok", "APIError"}

\* The record of a mapper's last call: the arguments it was given (those the
\* call does not take are left at 0, "" or <<>>), how it ended, what it
\* returned (ret_int, ret_str: an Optional; ret_rows: row references or dict
\* items) and the writes it issued to the worksheet.
NoArgs == [row |-> 0, items |-> <<>>, name |-> "", value |-> "", row_data |-> <<>>]

NoRet == [int |-> <<>>, str |-> <<>>, rows |-> <<>>]

NoCall ==
    [seq |-> 0, op |-> "", args |-> NoArgs, status |-> "ok", exc |-> "",
     msg |-> <<>>, ret |-> NoRet, issued |-> <<>>]
\* The record of the last tool call: its arguments (those the tool does not
\* take are left at "" or <<>>), whether an exception left the handler, the
\* envelope it returned and the writes it issued to the worksheet; held is
\* the values a handler acts on once it has read them, pending whether its
\* writes are still to come.
NoToolArgs ==
    [upstream |-> "", id_column |-> "", id_value |-> "", updates |-> <<>>,
     values |-> <<>>, filters |-> <<>>, status |-> "", completed_date |-> "",
     now |-> ""]
NoTool ==
    [name |-> "", args |-> NoToolArgs, raised |-> FALSE, result |-> Failure(<<>>),
     issued |-> <<>>, held |-> None, pending |-> FALSE]
NoLoop == [fn |-> "", n |-> 0, col_num |-> 0, result |-> <<>>, pc |-> "idle"]
NoFrame == [columns |-> <<>>, rows |-> <<>>]
NoEnvelope == [success |-> FALSE, data |-> <<>>, count |-> 0, error |-> <<>>]
NoQuery ==
    [pc |-> "idle", filters |-> <<>>, return_columns |-> None, limit |-> None,
     sort_by |-> None, sort_desc |-> FALSE, fi |-> 0, df |-> NoFrame,
     result |-> NoEnvelope]

\* The auth manager before it is built: no credentials, no call made.  A
\* Credentials object is the record of whether it has a token, whether the
\* token's expiry has passed and whether it has a refresh token.
NoCredentials == [token |-> FALSE, expired |-> FALSE, refresh_token |-> FALSE]
NoAuth ==
    [built |-> FALSE, credentials |-> None, op |-> "", request |-> "",
     raised |-> FALSE, returned |-> None, answer |-> FALSE, seq |-> 0]

Call(seq, op, args, out, ret, issued) ==
    [seq |-> seq, op |-> op, args |-> args, status |-> out.status, exc |-> out.exc,
     msg |-> out.msg, ret |-> IF out.status = "ok" THEN ret ELSE NoRet,
     issued |-> issued]

\* the mapper object of instance m, once built
Self(m) == mapper[m][1]

(***************************************************************************)
(* Actions on SheetMapper instances.                                       *)
(***************************************************************************)
\* m = SheetMapper(worksheet)
Construct(m) ==
    /\ mapper[m] = None
    /\ mres[m] = NoCall
    /\ LET built == SheetMapper_init(sheet)
       IN  /\ mapper' = [mapper EXCEPT ![m] =
                            IF built.status = "ok" THEN built.val ELSE None]
           /\ mres' = [mres EXCEPT ![m] =
                            Call(0, "__init__", NoArgs, built, NoRet, <<>>)]
    /\ UNCHANGED <<sheet, calls, tool, cl, q, auth>>

\* m.update_cells(row_number, updates)
UpdateCells(m, row_number, updates) ==
    /\ mapper[m] # None
    /\ calls < MaxCalls
    /\ LET done == update_cells(Self(m), sheet, row_number, updates)
       IN  /\ sheet' = done.ws
           /\ mres' = [mres EXCEPT ![m] =
                 Call(calls + 1, "update_cells",
                      [NoArgs EXCEPT !.row = row_number, !.items = updates],
                      done.out, NoRet, done.issued)]
           /\ mapper' = [mapper EXCEPT ![m] = Some(snapshot_kept(Self(m), done.ws))]
    /\ calls' = calls + 1
    /\ UNCHANGED <<tool, cl, q, auth>>

\* m.append_row(data_dict)
AppendRow(m, data_dict) ==
    /\ mapper[m] # None
    /\ calls < MaxCalls
    /\ LET done == append_row(Self(m), sheet, data_dict)
       IN  /\ sheet' = done.ws
           /\ mres' = [mres EXCEPT ![m] =
                 Call(calls + 1, "append_row", [NoArgs EXCEPT !.items = data_dict],
                      done.out, [NoRet EXCEPT !.int = done.out.val], done.issued)]
           /\ mapper' = [mapper EXCEPT ![m] = Some(snapshot_kept(Self(m), done.ws))]
    /\ calls' = calls + 1
    /\ UNCHANGED <<tool, cl, q, auth>>

InitIdle ==
    /\ mapper = [m \in Mappers |-> None]
    /\ mres = [m \in Mappers |-> NoCall]
    /\ calls = 0
    /\ tool = NoTool
    /\ cl = NoLoop
    /\ q = NoQuery
    /\ auth = NoAuth

Init ==
    /\ sheet \in InitSheets
    /\ InitIdle

Next ==
    \/ \E m \in Mappers : Construct(m)
    \/ \E m \in Mappers, r \in RowNumbers, u \in UpdateDicts : UpdateCells(m, r, u)
    \/ \E m \in Mappers, d \in UpdateDicts : AppendRow(m, d)

Spec == Init /\ [][Next]_vars

(***************************************************************************)
(* Properties of the cell-level writes.                                    *)
(***************************************************************************)
\* the rows and columns in which either worksheet holds a cell
GridRows(a, b) == 1..(IF Len(a) > Len(b) THEN Len(a) ELSE Len(b))

GridCols(a, b) ==
    LET lens == {Len(a[r]) : r \in 1..Len(a)} \cup {Len(b[r]) : r \in 1..Len(b)} \cup {0}
    IN  1..(CHOOSE n \in lens : \A k \in lens : k <= n)

\* the step is write call `op` of mapper m
WriteStep(m, op) ==
    /\ calls' = calls + 1
    /\ mres'[m].seq = calls'
    /\ mres'[m].op = op

\* the 1-based sheet columns the items of a dict name, by the mapper's column map
NamedColumns(self, items) ==
    {DictGet(self.column_map, items[i][1]) + 1 :
        i \in {j \in 1..Len(items) : DictHas(self.column_map, items[j][1])}}

\* write i of the call is the single cell of item i: the standard column
\* letters of (column index + 1), the given row, the item's value
WritesFollowItems(self, row, items, issued) ==
    /\ Len(issued) <= Len(items)
    /\ \A i \in 1..Len(issued) :
          /\ DictHas(self.column_map, items[i][1])
          /\ issued[i].cell.row = row
          /\ issued[i].cell.letters # <<>>
          /\ A1Column(issued[i].cell.letters) = DictGet(self.column_map, items[i][1]) + 1
          /\ issued[i].value = items[i][2]

\* C1: update_cells(row_number, updates) issues one single-cell write per
\* entry of updates, in order, each addressed to the column letter of
\* (column index + 1) followed by row_number; when it returns, there is
\* exactly one write per entry; and whether it returns or raises, every cell
\* other than those of row_number in the columns updates names holds after
\* the call what it held before (formula cells included).
C1_UpdateCellsTouchesOnlyNamedCells ==
    [][\A m \in Mappers : WriteStep(m, "update_cells") =>
        LET row == mres'[m].args.row
            updates == mres'[m].args.items
            issued == mres'[m].issued
        IN  /\ WritesFollowItems(Self(m), row, updates, issued)
            /\ (mres'[m].status = "ok" => Len(issued) = Len(updates))
            /\ \A r \in GridRows(sheet, sheet'), c \in GridCols(sheet, sheet') :
                  ~(r = row /\ c \in NamedColumns(Self(m), updates))
                      => CellAt(sheet', r, c) = CellAt(sheet, r, c)
            /\ \A i \in 1..Len(issued) :
                  \E j \in i..Len(issued) :
                      /\ issued[j].cell = issued[i].cell
                      /\ CellAt(sheet', row, A1Column(issued[i].cell.letters))
                            = issued[j].value
      ]_vars

\* C1 witness: an update of two cells of a row returned, and the row's
\* formula cell, which the update did not name, still holds its formula.
C1_Witness ==
    \E m \in Mappers :
        /\ mres[m].op = "update_cells"
        /\ mres[m].status = "ok"
        /\ Len(mres[m].issued) = 2
        /\ Self(m).headers = <<"ID", "Task", "Formula">>
        /\ CellAt(sheet, mres[m].args.row, 3) = "=F"
        /\ CellAt(sheet, mres[m].args.row, 2) = "x"

\* C2: append_row(data) targets row (rows of the snapshot, header included)
\* + 1: every write it issues goes through update_cells to that row, one per
\* named column; it returns that row number; and every other column of the
\* new row is left unwritten (no write addresses it, not even with "").
C2_AppendRowWritesOnlyNamedColumns ==
    [][\A m \in Mappers : WriteStep(m, "append_row") =>
        LET data == mres'[m].args.items
            issued == mres'[m].issued
            target == Len(Self(m).data) + 1
        IN  /\ WritesFollowItems(Self(m), target, data, issued)
            /\ mres'[m].status = "ok" =>
                  /\ mres'[m].ret.int = <<target>>
                  /\ Len(issued) = Len(data)
            /\ \A c \in GridCols(sheet, sheet') \ NamedColumns(Self(m), data) :
                  /\ \A i \in 1..Len(issued) : A1Column(issued[i].cell.letters) # c
                  /\ CellAt(sheet', target, c) = CellAt(sheet, target, c)
            /\ \A r \in GridRows(sheet, sheet') \ {target} :
                  \A c \in GridCols(sheet, sheet') :
                      CellAt(sheet', r, c) = CellAt(sheet, r, c)
      ]_vars

\* C2 witness: {"Task": "Buy milk"} appended to a sheet with columns
\* [Task, Formula]: the new row holds the task and no Formula cell.
C2_Witness ==
    \E m \in Mappers :
        /\ mres[m].op = "append_row"
        /\ mres[m].status = "ok"
        /\ mres[m].ret.int = <<3>>
        /\ mres[m].args.items = << <<"Task", "Buy milk">> >>
        /\ Self(m).headers = <<"Task", "Formula">>
        /\ sheet[3] = <<"Buy milk">>

\* both mappers' last calls are appends that returned
BothAppended(m1, m2) ==
    /\ m1 # m2
    /\ mres[m1].op = "append_row" /\ mres[m1].status = "ok"
    /\ mres[m2].op = "append_row" /\ mres[m2].status = "ok"

\* C3: appends are not coordinated.  Two mappers that took their snapshots
\* of the same sheet length compute the same next-empty-row number, and the
\* cells the earlier append wrote in columns the later one names too hold
\* the later append's values.
C3_AppendsFromEqualSnapshotsCollide ==
    \A m1, m2 \in Mappers :
        (BothAppended(m1, m2) /\ Len(Self(m1).data) = Len(Self(m2).data)
                              /\ mres[m1].seq < mres[m2].seq) =>
            /\ mres[m1].ret.int = mres[m2].ret.int
            /\ \A j \in 1..Len(mres[m2].args.items) :
                  LET item == mres[m2].args.items[j]
                  IN  CellAt(sheet, mres[m2].ret.int[1],
                                DictGet(Self(m2).column_map, item[1]) + 1) = item[2]

\* C3 witness: a lost append.  m1 appended a task, m2 then appended to the
\* same row number, and the row holds m2's task, not m1's.
C3_Witness ==
    \E m1, m2 \in Mappers :
        /\ BothAppended(m1, m2)
        /\ mres[m1].seq < mres[m2].seq
        /\ mres[m1].ret.int = mres[m2].ret.int
        /\ \E i \in 1..Len(mres[m1].args.items), j \in 1..Len(mres[m2].args.items) :
              /\ mres[m1].args.items[i][1] = mres[m2].args.items[j][1]
              /\ mres[m1].args.items[i][2] # mres[m2].args.items[j][2]
              /\ CellAt(sheet, mres[m1].ret.int[1],
                        DictGet(Self(m1).column_map, mres[m1].args.items[i][1]) + 1)
                    = mres[m2].args.items[j][2]

(***************************************************************************)
(* The column-letter loop, one pass of `while n > 0` per step, for both    *)
(* copies of the conversion.                                               *)
(***************************************************************************)
LetterFns == {"_col_letter", "col_to_a1"}

InitLetter ==
    /\ sheet = <<>>
    /\ mapper = [m \in Mappers |-> None]
    /\ mres = [m \in Mappers |-> NoCall]
    /\ calls = 0
    /\ tool = NoTool
    /\ q = NoQuery
    /\ auth = NoAuth
    /\ \E fn \in LetterFns, n \in 0..MaxColNum :
          cl = [fn |-> fn, n |-> n, col_num |-> n, result |-> <<>>, pc |-> "while"]

\* SheetMapper._col_letter: the loop test holds, the body runs once
ColLetterPass ==
    /\ cl.fn = "_col_letter" /\ cl.pc = "while"
    /\ cl.col_num > 0
    /\ LET nx == col_letter_body(cl.col_num, cl.result)
       IN  cl' = [cl EXCEPT !.col_num = nx[1], !.result = nx[2]]
    /\ UNCHANGED <<sheet, mapper, mres, calls, tool, q, auth>>

\* SheetMapper._col_letter: the loop test fails, `return result`
ColLetterReturn ==
    /\ cl.fn = "_col_letter" /\ cl.pc = "while"
    /\ ~(cl.col_num > 0)
    /\ cl' = [cl EXCEPT !.pc = "returned"]
    /\ UNCHANGED <<sheet, mapper, mres, calls, tool, q, auth>>

\* server.col_to_a1: the loop test holds, the body runs once
ColToA1Pass ==
    /\ cl.fn = "col_to_a1" /\ cl.pc = "while"
    /\ cl.col_num > 0
    /\ LET nx == col_to_a1_body(cl.col_num, cl.result)
       IN  cl' = [cl EXCEPT !.col_num = nx[1], !.result = nx[2]]
    /\ UNCHANGED <<sheet, mapper, mres, calls, tool, q, auth>>

\* server.col_to_a1: the loop test fails, `return s`
ColToA1Return ==
    /\ cl.fn = "col_to_a1" /\ cl.pc = "while"
    /\ ~(cl.col_num > 0)
    /\ cl' = [cl EXCEPT !.pc = "returned"]
    /\ UNCHANGED <<sheet, mapper, mres, calls, tool, q, auth>>

NextLetter ==
    \/ ColLetterPass
    \/ ColLetterReturn
    \/ ColToA1Pass
    \/ ColToA1Return

\* A call that has started runs on: nothing else is scheduled inside the loop.
SpecLetter == InitLetter /\ [][NextLetter]_vars /\ WF_vars(NextLetter)

\* C4: for every column number n >= 1 both conversions end, and the letters
\* returned are the bijective base-26 numeral of n: a non-empty string of
\* letters A..Z (digits 1..26, no zero digit) whose value in the standard
\* spreadsheet numbering is n, so that distinct numbers give distinct
\* strings; 1 -> A, 26 -> Z, 27 -> AA, 52 -> AZ.
C4_ColumnLetterIsBijectiveBase26 ==
    /\ [](cl.pc = "returned" /\ cl.n >= 1 =>
            /\ cl.result # <<>>
            /\ \A i \in 1..Len(cl.result) : \E d \in 1..26 : cl.result[i] = AZ[d]
            /\ A1Column(cl.result) = cl.n
            /\ (cl.n = 1 => cl.result = <<"A">>)
            /\ (cl.n = 26 => cl.result = <<"Z">>)
            /\ (cl.n = 27 => cl.result = <<"A", "A">>)
            /\ (cl.n = 52 => cl.result = <<"A", "Z">>))
    /\ <>(cl.pc = "returned")

\* C4 witness: a three-letter column (703 = AAA) converted by col_to_a1
C4_Witness ==
    /\ cl.pc = "returned"
    /\ cl.fn = "col_to_a1"
    /\ cl.n = 703
    /\ cl.result = <<"A", "A", "A">>

(***************************************************************************)
(* The read accessors of one mapper and the find_row_by_id tool.  The      *)
(* accessors are functions of the snapshot alone, so one instance is read. *)
(***************************************************************************)
Readers == {"m1"}

ToolValues == CellValues \ {""}     \* id_value has min_length 1

\* the lists given as row_data: the snapshot's rows, and the empty list
RowDatas(self) == Range(self.rows) \cup {<<>>}

Read(m, op, args, out, ret) ==
    /\ mapper[m] # None
    /\ mres' = [mres EXCEPT ![m] = Call(0, op, args, out, ret, <<>>)]
    /\ UNCHANGED <<sheet, mapper, calls, tool, cl, q, auth>>

GetCellValue(m, row_data, column_name) ==
    /\ mapper[m] # None
    /\ LET out == get_cell_value(Self(m), row_data, column_name)
       IN  Read(m, "get_cell_value",
                [NoArgs EXCEPT !.row_data = row_data, !.name = column_name],
                out, [NoRet EXCEPT !.str = out.val])

RequireColumn(m, column_name) ==
    /\ mapper[m] # None
    /\ LET out == require_column(Self(m), column_name)
       IN  Read(m, "require_column", [NoArgs EXCEPT !.name = column_name],
                out, [NoRet EXCEPT !.int = out.val])

\* require_column of the SheetMapper of src/sheet_mapper.py
RequireColumnV0(m, column_name) ==
    /\ mapper[m] # None
    /\ LET out == require_column_v0(Self(m), column_name)
       IN  Read(m, "require_column_v0", [NoArgs EXCEPT !.name = column_name],
                out, [NoRet EXCEPT !.int = out.val])

FindRowByValue(m, column_name, value) ==
    /\ mapper[m] # None
    /\ LET out == find_row_by_value(Self(m), column_name, value)
       IN  Read(m, "find_row_by_value",
                [NoArgs EXCEPT !.name = column_name, !.value = value],
                out, [NoRet EXCEPT !.rows = IF out.status = "ok" THEN out.val[1] ELSE <<>>])

FindAllRowsByValue(m, column_name, value) ==
    /\ mapper[m] # None
    /\ LET out == find_all_rows_by_value(Self(m), column_name, value)
       IN  Read(m, "find_all_rows_by_value",
                [NoArgs EXCEPT !.name = column_name, !.value = value],
                out, [NoRet EXCEPT !.rows = IF out.status = "ok" THEN out.val[1] ELSE <<>>])

RowToDict(m, row_data) ==
    /\ mapper[m] # None
    /\ Read(m, "row_to_dict", [NoArgs EXCEPT !.row_data = row_data],
            Ok(None), [NoRet EXCEPT !.rows = row_to_dict(Self(m), row_data)])

\* the find_row_by_id tool, called on the worksheet as it is now
FindRowById(upstream, id_column, id_value) ==
    /\ tool' = [NoTool EXCEPT
                  !.name = "find_row_by_id",
                  !.args = [NoToolArgs EXCEPT !.upstream = upstream,
                                              !.id_column = id_column,
                                              !.id_value = id_value],
                  !.result = find_row_by_id(sheet, upstream, id_column, id_value)]
    /\ UNCHANGED <<sheet, mapper, mres, calls, cl, q, auth>>

NextRead ==
    \/ \E m \in Readers : Construct(m)
    \/ \E m \in Readers, c \in ColumnNames :
          \E r \in (IF mapper[m] # None THEN RowDatas(Self(m)) ELSE {}) :
              GetCellValue(m, r, c)
    \/ \E m \in Readers, c \in ColumnNames : RequireColumn(m, c)
    \/ \E m \in Readers, c \in ColumnNames : RequireColumnV0(m, c)
    \/ \E m \in Readers, c \in ColumnNames, v \in CellValues : FindRowByValue(m, c, v)
    \/ \E m \in Readers, c \in ColumnNames, v \in CellValues : FindAllRowsByValue(m, c, v)
    \/ \E m \in Readers :
          \E r \in (IF mapper[m] # None THEN RowDatas(Self(m)) ELSE {}) :
              RowToDict(m, r)
    \/ \E u \in Upstream, c \in ColumnNames, v \in ToolValues : FindRowById(u, c, v)

SpecRead == Init /\ [][NextRead]_vars

(***************************************************************************)
(* Properties of the lookups.                                              *)
(***************************************************************************)
Min(S) == CHOOSE n \in S : \A k \in S : n <= k

\* the positions (1-based, in the data rows) of the rows that hold `value`
\* in the cell at 0-based position idx; a row too short to have that cell
\* holds no value there
Matches(rows, idx, value) ==
    {i \in 1..Len(rows) : idx < Len(rows[i]) /\ rows[i][idx + 1] = value}

\* the position header.index gives a name: the first one
FirstPosition(header, name) == Min({i \in 1..Len(header) : header[i] = name}) - 1

\* C7 (find_row_by_value): the result is the first data row in file order
\* whose cell in the named column equals the value, with the sheet row
\* number of the data row at 0-based position i being i + 2, so never below
\* 2 and the lowest among several; it is None when no row matches.
FindRowByValueFirstMatch ==
    \A m \in Mappers :
        (mres[m].op = "find_row_by_value" /\ mres[m].status = "ok") =>
            LET rows == Self(m).rows
                hits == Matches(rows, DictGet(Self(m).column_map, mres[m].args.name),
                                mres[m].args.value)
            IN  IF hits = {} THEN mres[m].ret.rows = None
                ELSE /\ mres[m].ret.rows = Some(<<(Min(hits) - 1) + 2, rows[Min(hits)]>>)
                     /\ mres[m].ret.rows[1][1] >= 2

\* C7 (find_row_by_id): the same for the tool, on the values it read; a
\* not-found envelope when no row matches.
FindRowByIdFirstMatch ==
    (/\ tool.name = "find_row_by_id"
     /\ tool.args.upstream = "ok"
     /\ sheet # <<>>
     /\ tool.args.id_column \in Range(sheet[1])) =>
        LET rows == Tail(sheet)
            hits == Matches(rows, FirstPosition(sheet[1], tool.args.id_column),
                            tool.args.id_value)
        IN  IF hits = {}
            THEN /\ ~tool.result.success
                 /\ tool.result.row_number = None
                 /\ tool.result.error # <<>>
            ELSE /\ tool.result.success
                 /\ tool.result.row_number = Some((Min(hits) - 1) + 2)
                 /\ tool.result.row_number[1] >= 2

C7_FirstMatchWins == FindRowByValueFirstMatch /\ FindRowByIdFirstMatch

\* C7 witness: rows 2 and 5 share the id "1"; both lookups answer row 2.
C7_Witness ==
    /\ Len(sheet) = 5
    /\ sheet[2][1] = "1" /\ sheet[5][1] = "1"
    /\ tool.name = "find_row_by_id" /\ tool.args.id_value = "1"
    /\ tool.result.success /\ tool.result.row_number = <<2>>
    /\ \E m \in Mappers :
          /\ mres[m].op = "find_row_by_value"
          /\ mres[m].args.name = "ID" /\ mres[m].args.value = "1"
          /\ mres[m].ret.rows = << <<2, get_all_values(sheet)[2]>> >>

\* C8: find_all_rows_by_value returns exactly the rows whose cell in the
\* named column equals the value, each with its sheet row number, in
\* increasing row-number order; its first element, when there is one, is
\* what find_row_by_value returns for the same arguments (None otherwise).
C8_FindAllReturnsEveryMatchInOrder ==
    \A m \in Mappers :
        (mres[m].op = "find_all_rows_by_value" /\ mres[m].status = "ok") =>
            LET rows == Self(m).rows
                found == mres[m].ret.rows
                hits == Matches(rows, DictGet(Self(m).column_map, mres[m].args.name),
                                mres[m].args.value)
                first == find_row_by_value(Self(m), mres[m].args.name, mres[m].args.value)
            IN  /\ {found[k][1] : k \in 1..Len(found)} = {i + 1 : i \in hits}
                /\ \A k \in 1..Len(found) : found[k][2] = rows[found[k][1] - 1]
                /\ \A k \in 1..(Len(found) - 1) : found[k][1] < found[k + 1][1]
                /\ first.status = "ok"
                /\ first.val[1] = (IF found = <<>> THEN None ELSE Some(found[1]))

\* C8 witness: two rows found, rows 2 and 5
C8_Witness ==
    \E m \in Mappers :
        /\ mres[m].op = "find_all_rows_by_value"
        /\ Len(mres[m].ret.rows) = 2
        /\ mres[m].ret.rows[1][1] = 2
        /\ mres[m].ret.rows[2][1] = 5

\* C9: get_cell_value(row, name) never raises: it returns "" when name is
\* not a header column or the column's position is >= the row's length, and
\* the cell at that position otherwise.
C9_GetCellValueNeverRaises ==
    \A m \in Mappers :
        mres[m].op = "get_cell_value" =>
            LET name == mres[m].args.name
                row == mres[m].args.row_data
            IN  /\ mres[m].status = "ok"
                /\ mres[m].ret.str =
                     Some(IF name \notin Range(Self(m).headers) THEN ""
                          ELSE IF DictGet(Self(m).column_map, name) >= Len(row) THEN ""
                          ELSE row[DictGet(Self(m).column_map, name) + 1])

\* C9 witness: the row is shorter than the position of the column asked for
C9_Witness ==
    \E m \in Mappers :
        /\ mres[m].op = "get_cell_value"
        /\ mres[m].args.name \in Range(Self(m).headers)
        /\ mres[m].args.row_data # <<>>
        /\ DictGet(Self(m).column_map, mres[m].args.name) >= Len(mres[m].args.row_data)
        /\ mres[m].ret.str = <<"">>

\* C10: require_column(name) returns the column's position when name is in
\* the header and otherwise fails with an error whose message names the
\* missing column and enumerates the available columns, in every
\* SheetMapper of the repository.
C10_RequireColumnListsAvailable ==
    \A m \in Mappers :
        mres[m].op \in {"require_column", "require_column_v0"} =>
            IF mres[m].args.name \in Range(Self(m).headers)
            THEN /\ mres[m].status = "ok"
                 /\ mres[m].ret.int = Some(DictGet(Self(m).column_map, mres[m].args.name))
            ELSE /\ mres[m].status = "raise"
                 /\ mres[m].args.name \in Range(mres[m].msg)
                 /\ \A i \in 1..Len(Self(m).headers) :
                        Self(m).headers[i] \in Range(mres[m].msg)

(***************************************************************************)
(* Strings as Python compares them.  A string of the model is a TLA+       *)
(* string; Chars gives its characters, for the strings the queries use.    *)
(***************************************************************************)
\* the characters the strings are made of, with their code points
Digits09 == <<"0", "1", "2", "3", "4", "5", "6", "7", "8", "9">>

az == <<"a","b","c","d","e","f","g","h","i","j","k","l","m",
        "n","o","p","q","r","s","t","u","v","w","x","y","z">>

IndexIn(seq, c) == CHOOSE i \in 1..Len(seq) : seq[i] = c

ord(c) ==
    IF c = " " THEN 32
    ELSE IF c = "-" THEN 45
    ELSE IF c = "." THEN 46
    ELSE IF c = "/" THEN 47
    ELSE IF c \in Range(Digits09) THEN 47 + IndexIn(Digits09, c)
    ELSE IF c \in Range(AZ) THEN 64 + IndexIn(AZ, c)
    ELSE 96 + IndexIn(az, c)

Chars ==
    "" :> << >> @@
    "." :> << "." >> @@
    "A" :> << "A" >> @@
    "B" :> << "B" >> @@
    "C" :> << "C" >> @@
    "D" :> << "D" >> @@
    "a" :> << "a" >> @@
    "TRUE" :> << "T", "R", "U", "E" >> @@
    "FALSE" :> << "F", "A", "L", "S", "E" >> @@
    "10/1/2025" :> << "1", "0", "/", "1", "/", "2", "0", "2", "5" >> @@
    "9/1/2025" :> << "9", "/", "1", "/", "2", "0", "2", "5" >> @@
    "2025-10-02" :> << "2", "0", "2", "5", "-", "1", "0", "-", "0", "2" >> @@
    "2025-10-27" :> << "2", "0", "2", "5", "-", "1", "0", "-", "2", "7" >> @@
    "garbage" :> << "g", "a", "r", "b", "a", "g", "e" >> @@
    "11/5/2025" :> << "1", "1", "/", "5", "/", "2", "0", "2", "5" >> @@
    "Task" :> << "T", "a", "s", "k" >> @@
    "Status" :> << "S", "t", "a", "t", "u", "s" >> @@
    "Do Date" :> << "D", "o", " ", "D", "a", "t", "e" >> @@
    "Nope" :> << "N", "o", "p", "e" >>

\* str.lower() of one character
lower(c) == IF c \in Range(AZ) THEN az[IndexIn(AZ, c)] ELSE c

\* a < b for two Python strings: by code point, a proper prefix being smaller
RECURSIVE chars_less(_, _)
chars_less(a, b) ==
    IF b = <<>> THEN FALSE
    ELSE IF a = <<>> THEN TRUE
    ELSE IF ord(a[1]) # ord(b[1]) THEN ord(a[1]) < ord(b[1])
    ELSE chars_less(Tail(a), Tail(b))

str_lt(a, b) == chars_less(Chars[a], Chars[b])

\* Series.str.contains(b, case=False) for one string a: b is a regular
\* expression searched for in a ignoring case.  The patterns used here are
\* made of literal characters and ".", which stands for any one character.
str_contains_nocase(a, b) ==
    LET ca == [i \in 1..Len(Chars[a]) |-> lower(Chars[a][i])]
        cb == [i \in 1..Len(Chars[b]) |-> lower(Chars[b][i])]
    IN  \E k \in 0..(Len(ca) - Len(cb)) :
            \A j \in 1..Len(cb) : cb[j] = "." \/ ca[k + j] = cb[j]

(***************************************************************************)
(* server.py: query_sheet, over a pandas DataFrame.  A frame is its column *)
(* names and its rows, each row a sequence of cells aligned with the       *)
(* columns; NA is the None pandas stores for a cell a short row lacks.     *)
(* A filter clause is a dict with the keys field, operator and value, each *)
(* an Optional here (absent: the key is missing from the dict); a value is *)
(* a string (kind "str", one item) or a list of strings (kind "list").     *)
(***************************************************************************)
NA == "<NA>"

MaxLen(rows) ==
    LET lens == {Len(rows[i]) : i \in 1..Len(rows)}
    IN  CHOOSE n \in lens : \A k \in lens : k <= n

\* pd.DataFrame(data[1:], columns=data[0])
DataFrame(rows, columns) ==
    IF rows = <<>> THEN Ok([columns |-> columns, rows |-> <<>>])
    ELSE IF MaxLen(rows) # Len(columns)
    THEN Raise("ValueError", <<"columns passed do not match the columns of the data">>)
    ELSE Ok([columns |-> columns,
             rows |-> [i \in 1..Len(rows) |->
                         [c \in 1..Len(columns) |->
                             IF c <= Len(rows[i]) THEN rows[i][c] ELSE NA]]])

\* df[field] for row i
Cell(df, i, field) == df.rows[i][IndexIn(df.columns, field)]

\* the operand a comparison gives row i: the string, or item i of the list
Operand(value, i) == IF value.kind = "str" THEN value.items[1] ELSE value.items[i]

Relational == {"==", "!=", ">", "<", ">=", "<="}

\* the equality test turned round
Compare_eq_keeps_the_others(operator, c, v) ==
    IF operator = "==" THEN c # v ELSE c = v

\* one element of  df[field] <operator> value
Compare(operator, c, v) ==
    IF operator = "==" THEN c = v
    ELSE IF operator = "!=" THEN c # v
    ELSE IF c = NA THEN FALSE
    ELSE IF operator = ">" THEN str_lt(v, c)
    ELSE IF operator = "<" THEN str_lt(c, v)
    ELSE IF operator = ">=" THEN ~str_lt(c, v)
    ELSE ~str_lt(v, c)

\* the index of a frame's rows
Index(df) == 1..Len(df.rows)

\* df[mask]
Keep(df, mask) ==
    LET RECURSIVE keep(_, _)
        keep(i, acc) ==
            IF i > Len(df.rows) THEN acc
            ELSE keep(i + 1, IF mask[i] THEN Append(acc, df.rows[i]) ELSE acc)
    IN  [df EXCEPT !.rows = keep(1, <<>>)]

\* a clause on a column the frame does not have dropping every row
apply_filter_unknown_field_matches_nothing(df, filter_def) ==
    IF filter_def.field # None /\ filter_def.field[1] \notin Range(df.columns)
    THEN Ok([df EXCEPT !.rows = <<>>])
    ELSE Ok(df)

\* the body of `for filter_def in params.filters` for one clause
apply_filter(df, filter_def) ==
    IF filter_def.field = None THEN Raise("KeyError", <<"'field'">>)
    ELSE IF filter_def.operator = None THEN Raise("KeyError", <<"'operator'">>)
    ELSE IF filter_def.value = None THEN Raise("KeyError", <<"'value'">>)
    ELSE
    LET field == filter_def.field[1]
        operator == filter_def.operator[1]
        value == filter_def.value[1]
    IN  IF field \notin Range(df.columns) THEN Ok(df)
        ELSE IF operator \in Relational
        THEN IF value.kind = "list" /\ Len(value.items) # Len(df.rows)
             THEN Raise("ValueError", <<"Lengths must match to compare">>)
             ELSE Ok(Keep(df, [i \in Index(df) |->
                               Compare(operator, Cell(df, i, field), Operand(value, i))]))
        ELSE IF operator \in {"in", "not in"}
        THEN IF value.kind = "str"
             THEN Raise("TypeError", <<"only list-like objects are allowed to be passed to isin()">>)
             ELSE Ok(Keep(df, [i \in Index(df) |->
                        (Cell(df, i, field) \in Range(value.items)) = (operator = "in")]))
        ELSE IF operator \in {"contains", "not contains"}
        THEN IF value.kind = "list"
             THEN Raise("TypeError", <<"first argument must be string or compiled pattern">>)
             ELSE Ok(Keep(df, [i \in Index(df) |->
                        (/\ Cell(df, i, field) # NA
                         /\ str_contains_nocase(Cell(df, i, field), value.items[1]))
                        = (operator = "contains")]))
        ELSE IF operator = "is_null"
        THEN Ok(Keep(df, [i \in Index(df) |->
                        Cell(df, i, field) = NA \/ Cell(df, i, field) = ""]))
        ELSE IF operator = "not_null"
        THEN Ok(Keep(df, [i \in Index(df) |->
                        Cell(df, i, field) # NA /\ Cell(df, i, field) # ""]))
        ELSE Ok(df)

\* the projection keeping the columns in the order of the header
select_columns_header_order(df, return_columns) ==
    IF return_columns = None \/ return_columns[1] = <<>> THEN df
    ELSE LET available_cols == SelectSeq(df.columns,
                                         LAMBDA col : col \in Range(return_columns[1]))
         IN  IF available_cols = <<>> THEN df
             ELSE [columns |-> available_cols,
                   rows |-> [i \in 1..Len(df.rows) |->
                               [c \in 1..Len(available_cols) |->
                                   Cell(df, i, available_cols[c])]]]

\* `if params.return_columns:` and the projection
select_columns(df, return_columns) ==
    IF return_columns = None \/ return_columns[1] = <<>> THEN df
    ELSE LET available_cols == SelectSeq(return_columns[1],
                                         LAMBDA col : col \in Range(df.columns))
         IN  IF available_cols = <<>> THEN df
             ELSE [columns |-> available_cols,
                   rows |-> [i \in 1..Len(df.rows) |->
                               [c \in 1..Len(available_cols) |->
                                   Cell(df, i, available_cols[c])]]]

\* a before b in the order sort_values gives; a missing value goes last
SortsBefore(a, b, ascending) ==
    IF a = NA THEN FALSE
    ELSE IF b = NA THEN TRUE
    ELSE IF ascending THEN str_lt(a, b) ELSE str_lt(b, a)

\* df.sort_values(by=sort_by, ascending=...): the default sort is not stable,
\* so every order of the rows that is sorted by the key is a possible result
sort_values(df, by, ascending) ==
    LET n == Len(df.rows)
        k == IndexIn(df.columns, by)
        perms == {p \in [1..n -> 1..n] : \A i, j \in 1..n : i # j => p[i] # p[j]}
        sorted == {p \in perms : \A i \in 1..(n - 1) :
                        ~SortsBefore(df.rows[p[i + 1]][k], df.rows[p[i]][k], ascending)}
    IN  {[df EXCEPT !.rows = [i \in 1..n |-> df.rows[p[i]]]] : p \in sorted}

\* a sort_by the frame does not have falling back on the first column
sort_stage_absent_sorts_by_first(df, sort_by, sort_desc) ==
    IF sort_by # None /\ sort_by[1] \notin Range(df.columns) /\ df.columns # <<>>
    THEN sort_values(df, df.columns[1], ~sort_desc)
    ELSE {df}

\* `if params.sort_by and params.sort_by in df.columns`
sort_stage(df, sort_by, sort_desc) ==
    IF sort_by # None /\ sort_by[1] # "" /\ sort_by[1] \in Range(df.columns)
    THEN sort_values(df, sort_by[1], ~sort_desc)
    ELSE {df}

\* df.head(n)
head(df, n) ==
    LET keep == IF n >= 0 THEN n ELSE Len(df.rows) + n
    IN  [df EXCEPT !.rows = SubSeq(df.rows, 1, IF keep > Len(df.rows) THEN Len(df.rows)
                                                ELSE keep)]

\* `if params.limit:` and the truncation
limit_stage(df, limit) ==
    IF limit # None /\ limit[1] # 0 THEN head(df, limit[1]) ELSE df

\* df.to_dict('records')
to_records(df) ==
    [i \in 1..Len(df.rows) |->
        [c \in 1..Len(df.columns) |-> <<df.columns[c], df.rows[i][c]>>]]

Envelope(success, data, error) ==
    [success |-> success, data |-> data, count |-> Len(data), error |-> error]

\* the stages with the truncation placed ahead of the sort
stage_after_limit_before_sort(stage) ==
    IF stage = "filters" THEN "select"
    ELSE IF stage = "select" THEN "limit"
    ELSE IF stage = "limit" THEN "sort"
    ELSE IF stage = "sort" THEN "return"
    ELSE "done"

\* the statement that follows each stage of query_sheet
stage_after(stage) ==
    IF stage = "filters" THEN "select"
    ELSE IF stage = "select" THEN "sort"
    ELSE IF stage = "sort" THEN "limit"
    ELSE IF stage = "limit" THEN "return"
    ELSE "done"

(***************************************************************************)
(* The queries made.                                                       *)
(***************************************************************************)
Str(v) == [kind |-> "str", items |-> <<v>>]
List(items) == [kind |-> "list", items |-> items]
Clause(field, operator, value) ==
    [field |-> Some(field), operator |-> Some(operator), value |-> Some(value)]

\* worksheets as get_all_values gives them: rows of the header's length,
\* header names distinct (and one sheet with a short last row)
QuerySheets ==
    { <<>>,
      << <<>> >>,
      << <<"Task", "Status", "Do Date">>,
         <<"A", "FALSE", "10/1/2025">>, <<"B", "TRUE", "9/1/2025">> >>,
      << <<"Task", "Do Date">>,
         <<"D", "11/5/2025">>, <<"A", "10/1/2025">>, <<"B", "2025-10-02">>,
         <<"C", "garbage">> >>,
      << <<"Task", "Status">>, <<"B", "">>, <<"A", "TRUE">>, <<"a">> >> }

Clauses ==
    { Clause("Status", "==", Str("FALSE")),
      Clause("Do Date", "<=", Str("2025-10-27")),
      Clause("Do Date", ">", Str("10/1/2025")),
      Clause("Task", "!=", Str("A")),
      Clause("Task", "in", List(<<"A", "C">>)),
      Clause("Task", "not in", List(<<"A">>)),
      Clause("Task", "in", Str("A")),
      Clause("Task", "contains", Str("a")),
      Clause("Task", "not contains", Str("a")),
      Clause("Task", "contains", Str(".")),
      Clause("Status", "contains", Str("")),
      Clause("Status", "is_null", Str("")),
      Clause("Status", "not_null", Str("")),
      Clause("Nope", "==", Str("A")),
      Clause("Task", "=~", Str("A")),
      [field |-> Some("Status"), operator |-> Some("is_null"), value |-> None] }

\* the clauses put first in a chain of two
FirstClauses ==
    { Clause("Status", "==", Str("FALSE")),
      Clause("Do Date", "<=", Str("2025-10-27")),
      Clause("Task", "!=", Str("A")) }

FilterLists ==
    {<<>>} \cup {<<f>> : f \in Clauses}
           \cup {<<fg[1], fg[2]>> : fg \in {p \in FirstClauses \X FirstClauses : p[1] # p[2]}}

ReturnColumns ==
    {None, Some(<<"Task">>), Some(<<"Do Date", "Nope", "Task">>), Some(<<"Nope">>)}
Limits == {None, Some(0), Some(1)}
SortBys == {None, Some("Task"), Some("Do Date")}

(***************************************************************************)
(* query_sheet, one stage per step.  q.pc is the stage to run next.        *)
(***************************************************************************)
QueryDone(envelope) == q' = [q EXCEPT !.pc = "done", !.result = envelope]

\* the call, up to the DataFrame built from the values read
QueryStart(upstream, filters, return_columns, limit, sort_by, sort_desc) ==
    /\ q.pc = "idle"
    /\ LET called == [q EXCEPT !.filters = filters, !.return_columns = return_columns,
                               !.limit = limit, !.sort_by = sort_by,
                               !.sort_desc = sort_desc, !.fi = 1]
           data == get_all_values(sheet)
           df == DataFrame(Tail(data), data[1])
       IN  IF upstream # "ok"
           THEN q' = [called EXCEPT !.pc = "done",
                                    !.result = Envelope(FALSE, <<>>, <<upstream>>)]
           ELSE IF data = <<>>
           THEN q' = [called EXCEPT !.pc = "done", !.result = Envelope(TRUE, <<>>, <<>>)]
           ELSE IF df.status = "raise"
           THEN q' = [called EXCEPT !.pc = "done",
                                    !.result = Envelope(FALSE, <<>>, df.msg)]
           ELSE q' = [called EXCEPT !.df = df.val[1],
                        !.pc = IF filters = <<>> THEN stage_after("filters") ELSE "filters"]
    /\ UNCHANGED <<sheet, mapper, mres, calls, tool, cl, auth>>

\* one pass of `for filter_def in params.filters`
QueryFilter ==
    /\ q.pc = "filters"
    /\ LET out == apply_filter(q.df, q.filters[q.fi])
       IN  IF out.status = "raise"
           THEN QueryDone(Envelope(FALSE, <<>>, out.msg))
           ELSE q' = [q EXCEPT !.df = out.val[1], !.fi = q.fi + 1,
                        !.pc = IF q.fi + 1 > Len(q.filters)
                               THEN stage_after("filters") ELSE "filters"]
    /\ UNCHANGED <<sheet, mapper, mres, calls, tool, cl, auth>>

QuerySelect ==
    /\ q.pc = "select"
    /\ q' = [q EXCEPT !.df = select_columns(q.df, q.return_columns),
                      !.pc = stage_after("select")]
    /\ UNCHANGED <<sheet, mapper, mres, calls, tool, cl, auth>>

QuerySort ==
    /\ q.pc = "sort"
    /\ \E df \in sort_stage(q.df, q.sort_by, q.sort_desc) :
          q' = [q EXCEPT !.df = df, !.pc = stage_after("sort")]
    /\ UNCHANGED <<sheet, mapper, mres, calls, tool, cl, auth>>

QueryLimit ==
    /\ q.pc = "limit"
    /\ q' = [q EXCEPT !.df = limit_stage(q.df, q.limit), !.pc = stage_after("limit")]
    /\ UNCHANGED <<sheet, mapper, mres, calls, tool, cl, auth>>

QueryReturn ==
    /\ q.pc = "return"
    /\ q' = [q EXCEPT !.pc = stage_after("return"),
                      !.result = Envelope(TRUE, to_records(q.df), <<>>)]
    /\ UNCHANGED <<sheet, mapper, mres, calls, tool, cl, auth>>

InitQuery ==
    /\ sheet \in QuerySheets
    /\ InitIdle

NextQuery ==
    \/ \E u \in Upstream, f \in FilterLists, rc \in ReturnColumns, l \in Limits,
          sb \in SortBys, sd \in BOOLEAN : QueryStart(u, f, rc, l, sb, sd)
    \/ QueryFilter
    \/ QuerySelect
    \/ QuerySort
    \/ QueryLimit
    \/ QueryReturn

SpecQuery == InitQuery /\ [][NextQuery]_vars

(***************************************************************************)
(* Properties of query_sheet.                                              *)
(***************************************************************************)
StageRank(pc) ==
    IF pc = "idle" THEN 0
    ELSE IF pc = "filters" THEN 1
    ELSE IF pc = "select" THEN 2
    ELSE IF pc = "sort" THEN 3
    ELSE IF pc = "limit" THEN 4
    ELSE IF pc = "return" THEN 5
    ELSE 6

IsPrefix(a, b) == Len(a) <= Len(b) /\ a = SubSeq(b, 1, Len(a))

\* the frame read from the sheet, as the call builds it
SheetFrame == DataFrame(Tail(get_all_values(sheet)), get_all_values(sheet)[1])

\* the clauses applied one after the other, first to last
RECURSIVE FilterChain(_, _, _)
FilterChain(df, filters, i) ==
    IF i > Len(filters) THEN Ok(df)
    ELSE LET out == apply_filter(df, filters[i])
         IN  IF out.status = "raise" THEN out
             ELSE FilterChain(out.val[1], filters, i + 1)

\* the record lists that filters, then projection, then sort, then limit give
InOrderResults ==
    LET filtered == FilterChain(SheetFrame.val[1], q.filters, 1)
        projected == select_columns(filtered.val[1], q.return_columns)
    IN  IF filtered.status = "raise" THEN {}
        ELSE {to_records(limit_stage(sorted, q.limit)) :
                sorted \in sort_stage(projected, q.sort_by, q.sort_desc)}

QueryAnswered == q.pc = "done" /\ q.result.success /\ sheet # <<>>

\* C5: query_sheet runs its stages in the order filters (as supplied), column
\* projection, sort, limit: no step goes back to an earlier stage, a filter
\* step applies the next clause of the list, the limit step keeps a prefix of
\* the rows it is given, and a successful answer is the limit of the sort of
\* the projection of the filter chain over the sheet's frame.
C5_StagesRunInFixedOrder ==
    /\ [][ /\ StageRank(q'.pc) >= StageRank(q.pc)
           /\ (q.pc = "filters" /\ q'.pc # "done") =>
                 /\ q'.fi = q.fi + 1
                 /\ q'.df = apply_filter(q.df, q.filters[q.fi]).val[1]
                 /\ q'.pc = (IF q'.fi > Len(q.filters) THEN "select" ELSE "filters")
           /\ q.pc = "select" => q'.pc = "sort"
           /\ q.pc = "sort" => q'.pc = "limit"
           /\ q.pc = "limit" => q'.pc = "return" /\ IsPrefix(q'.df.rows, q.df.rows) ]_vars
    /\ [](QueryAnswered => q.result.data \in InOrderResults)

\* two clauses, a projection, a sort that reorders and a limit that truncates:
\* of D and B the answer is B, which the limit taken before the sort would lose
C5_Witness ==
    /\ q.pc = "done"
    /\ q.filters = <<Clause("Task", "!=", Str("A")),
                     Clause("Do Date", "<=", Str("2025-10-27"))>>
    /\ q.return_columns = Some(<<"Do Date", "Nope", "Task">>)
    /\ q.sort_by = Some("Task") /\ ~q.sort_desc
    /\ q.limit = Some(1)
    /\ q.result.success
    /\ q.result.data = << << <<"Do Date", "2025-10-02">>, <<"Task", "B">> >> >>

(***************************************************************************)
(* Dates as the query contract reads them: M/D/YYYY or YYYY-M-D.           *)
(***************************************************************************)
RECURSIVE Split(_, _, _, _)
Split(cs, sep, part, acc) ==
    IF cs = <<>> THEN Append(acc, part)
    ELSE IF cs[1] = sep THEN Split(Tail(cs), sep, <<>>, Append(acc, part))
    ELSE Split(Tail(cs), sep, Append(part, cs[1]), acc)

IsNumber(cs) == cs # <<>> /\ \A i \in 1..Len(cs) : cs[i] \in Range(Digits09)

RECURSIVE Number(_, _)
Number(cs, acc) ==
    IF cs = <<>> THEN acc
    ELSE Number(Tail(cs), acc * 10 + (IndexIn(Digits09, cs[1]) - 1))

Date(y, m, d) ==
    IF IsNumber(y) /\ IsNumber(m) /\ IsNumber(d)
       /\ Number(m, 0) \in 1..12 /\ Number(d, 0) \in 1..31
    THEN Some(Number(y, 0) * 10000 + Number(m, 0) * 100 + Number(d, 0))
    ELSE None

ParseDate(s) ==
    IF s = NA THEN None
    ELSE LET slash == Split(Chars[s], "/", <<>>, <<>>)
             dash == Split(Chars[s], "-", <<>>, <<>>)
         IN  IF Len(slash) = 3 THEN Date(slash[3], slash[1], slash[2])
             ELSE IF Len(dash) = 3 THEN Date(dash[1], dash[2], dash[3])
             ELSE None

DateSatisfies(operator, c, v) ==
    IF operator = "==" THEN c = v
    ELSE IF operator = "!=" THEN c # v
    ELSE IF operator = ">" THEN c > v
    ELSE IF operator = "<" THEN c < v
    ELSE IF operator = ">=" THEN c >= v
    ELSE c <= v

\* the clause about to be applied is relational, on a column of the frame,
\* and its operand is a date
DateClauseNext ==
    /\ q.pc = "filters"
    /\ LET f == q.filters[q.fi]
       IN  /\ f.field # None /\ f.operator # None /\ f.value # None
           /\ f.field[1] \in Range(q.df.columns)
           /\ f.operator[1] \in Relational
           /\ f.value[1].kind = "str"
           /\ ParseDate(f.value[1].items[1]) # None

DateKept ==
    LET f == q.filters[q.fi]
        k == IndexIn(q.df.columns, f.field[1])
        target == ParseDate(f.value[1].items[1])[1]
    IN  SelectSeq(q.df.rows,
                  LAMBDA row : /\ ParseDate(row[k]) # None
                               /\ DateSatisfies(f.operator[1], ParseDate(row[k])[1], target))

\* C6: a relational clause whose operand is a date keeps exactly the rows
\* whose cell parses as a date, in either format, and whose date satisfies
\* the operator against the operand's date.
C6_DateOperandComparesParsedDates ==
    [][ DateClauseNext => q'.df.rows = DateKept ]_vars

(***************************************************************************)
(* server.py: the tool handlers.  Each body is a `try:` block; it gives    *)
(* the envelope it returns or the exception raised inside it, the          *)
(* worksheet as it leaves it and the writes it issued.                     *)
(***************************************************************************)
\* the handler letting the exception out
except_nothing(out) ==
    [raised |-> out.status = "raise",
     result |-> IF out.status = "raise" THEN Failure(<<>>) ELSE out.val[1]]

\* except Exception as e: return json.dumps({"success": False, "error": str(e)})
except_Exception(out) ==
    [raised |-> FALSE,
     result |-> IF out.status = "raise" THEN Failure(out.msg) ELSE out.val[1]]

Success(message) == [Failure(<<>>) EXCEPT !.success = TRUE, !.message = message]

Untouched(ws, out) == [out |-> out, ws |-> ws, issued |-> <<>>]

\* a write sent to the worksheet (last: the letters that end an update's range)
Write(op, row, last, values) == [op |-> op, row |-> row, last |-> last, values |-> values]

\* falling back to the first data row when no row holds the id
target_row_scan_or_first(rows, id_col_index, id_value, i) ==
    LET hits == {k \in i..Len(rows) :
                    id_col_index < Len(rows[k]) /\ rows[k][id_col_index + 1] = id_value}
    IN  IF hits # {} THEN Some(RowNumberStart + Min(hits) - 1)
        ELSE IF rows # <<>> THEN Some(RowNumberStart)
        ELSE None

\* the loop over all_values[1:] of the three row tools: the number of the first
\* row whose id cell is there and equal to id_value, or None
RECURSIVE target_row_scan(_, _, _, _)
target_row_scan(rows, id_col_index, id_value, i) ==
    IF i > Len(rows) THEN None
    ELSE IF id_col_index < Len(rows[i]) /\ rows[i][id_col_index + 1] = id_value
         THEN Some(RowNumberStart + i - 1)
         ELSE target_row_scan(rows, id_col_index, id_value, i + 1)

\* for col_name, new_value in params.updates.items(): from item k on
RECURSIVE apply_updates(_, _, _, _)
apply_updates(header, target_row_data, updates, k) ==
    IF k > Len(updates) THEN Ok(target_row_data)
    ELSE LET col_index == list_index(header, updates[k][1], 1)
         IN  IF col_index.status = "raise" THEN col_index
             ELSE apply_updates(header,
                    [PadRow(target_row_data, col_index.val[1] + 1)
                        EXCEPT ![col_index.val[1] + 1] = updates[k][2]],
                    updates, k + 1)

\* worksheet.update("A<row>:<last><row>", [values]): the cells of the range
\* take the values, left to right
WsUpdateRange(ws, row, last, values) ==
    LET width == A1Column(last)
        grown == PadRows(ws, row)
        old == PadRow(grown[row], width)
    IN  [grown EXCEPT ![row] =
            [c \in 1..Len(old) |-> IF c <= width /\ c <= Len(values) THEN values[c]
                                   ELSE old[c]]]

\* whether the Sheets API takes "A<row>:<last><row>" for these values: last
\* names a column, and the range is as wide as the values
valid_range(last, values) ==
    /\ \A i \in 1..Len(last) : last[i] \in Range(AZ)
    /\ A1Column(last) >= Len(values)

\* worksheet.delete_rows(row)
WsDeleteRows(ws, row) ==
    IF row > Len(ws) THEN ws
    ELSE SubSeq(ws, 1, row - 1) \o SubSeq(ws, row + 1, Len(ws))

\* worksheet.append_row(row), once for each row of values
WsAppendRows(ws, values) == ws \o values

\* update_row_by_id from `if not all_values` on: all_values is what the
\* handler read, ws the worksheet as it is when the update reaches it
update_row_by_id_from(all_values, ws, id_column, id_value, updates) ==
    IF all_values = <<>>
    THEN Untouched(ws, Ok(Failure(<<"Worksheet is empty">>)))
    ELSE
    LET header == all_values[1]
        id_col_index == list_index(header, id_column, 1)
    IN  IF id_col_index.status = "raise" THEN Untouched(ws, id_col_index)
        ELSE
    LET target_row_num == target_row_scan(Tail(all_values), id_col_index.val[1], id_value, 1)
    IN  IF target_row_num = None THEN Untouched(ws, Ok(Failure(<<"No row found">>)))
        ELSE
    LET target_row_data == apply_updates(header, all_values[target_row_num[1]], updates, 1)
    IN  IF target_row_data.status = "raise" THEN Untouched(ws, target_row_data)
        ELSE
    LET row == target_row_data.val[1]
        last == <<chr(65 + Len(row) - 1)>>
    IN  IF ~valid_range(last, row)
        THEN Untouched(ws, Raise("APIError", <<"Unable to parse range">>))
        ELSE
        [out |-> Ok([Success(<<"Updated row ">>) EXCEPT !.row_number = target_row_num]),
         ws |-> WsUpdateRange(ws, target_row_num[1], last, row),
         issued |-> <<Write("update", target_row_num[1], last, row)>>]

update_row_by_id_body(ws, upstream, id_column, id_value, updates) ==
    IF upstream # "ok" THEN Untouched(ws, Raise(upstream, <<upstream>>))
    ELSE update_row_by_id_from(get_all_values(ws), ws, id_column, id_value, updates)

update_row_by_id(ws, upstream, id_column, id_value, updates) ==
    LET done == update_row_by_id_body(ws, upstream, id_column, id_value, updates)
        ended == except_Exception(done.out)
    IN  [raised |-> ended.raised, result |-> ended.result, ws |-> done.ws,
         issued |-> done.issued]

delete_row_by_id_body(ws, upstream, id_column, id_value) ==
    IF upstream # "ok" THEN Untouched(ws, Raise(upstream, <<upstream>>))
    ELSE LET all_values == get_all_values(ws)
         IN  IF all_values = <<>>
             THEN Untouched(ws, Ok(Failure(<<"Worksheet is empty">>)))
             ELSE
    LET header == all_values[1]
        id_col_index == list_index(header, id_column, 1)
    IN  IF id_col_index.status = "raise" THEN Untouched(ws, id_col_index)
        ELSE
    LET row_num == target_row_scan(Tail(all_values), id_col_index.val[1], id_value, 1)
    IN  IF row_num = None THEN Untouched(ws, Ok(Failure(<<"Row not found">>)))
        ELSE [out |-> Ok([Success(<<"Deleted row ">>) EXCEPT !.row_number = row_num]),
              ws |-> WsDeleteRows(ws, row_num[1]),
              issued |-> <<Write("delete_rows", row_num[1], <<>>, <<>>)>>]

delete_row_by_id(ws, upstream, id_column, id_value) ==
    LET done == delete_row_by_id_body(ws, upstream, id_column, id_value)
        ended == except_Exception(done.out)
    IN  [raised |-> ended.raised, result |-> ended.result, ws |-> done.ws,
         issued |-> done.issued]

append_rows_body(ws, upstream, values) ==
    IF upstream # "ok" THEN Untouched(ws, Raise(upstream, <<upstream>>))
    ELSE [out |-> Ok(Success(<<"Successfully appended rows">>)),
          ws |-> WsAppendRows(ws, values),
          issued |-> [i \in 1..Len(values) |-> Write("append_row", 0, <<>>, values[i])]]

append_rows(ws, upstream, values) ==
    LET done == append_rows_body(ws, upstream, values)
        ended == except_Exception(done.out)
    IN  [raised |-> ended.raised, result |-> ended.result, ws |-> done.ws,
         issued |-> done.issued]

\* `for filter_def in params.filters`, from clause i on
RECURSIVE filter_loop(_, _, _)
filter_loop(df, filters, i) ==
    IF i > Len(filters) THEN Ok(df)
    ELSE LET out == apply_filter(df, filters[i])
         IN  IF out.status = "raise" THEN out
             ELSE filter_loop(out.val[1], filters, i + 1)

Data(records) == [Success(<<>>) EXCEPT !.data = Some(records)]

\* the outcomes the body of query_sheet can have (the sort leaves the order of
\* rows with equal keys open)
query_sheet_body(ws, upstream, filters, return_columns, limit, sort_by, sort_desc) ==
    IF upstream # "ok" THEN {Raise(upstream, <<upstream>>)}
    ELSE LET data == get_all_values(ws)
         IN  IF data = <<>> THEN {Ok(Data(<<>>))}
             ELSE
    LET df == DataFrame(Tail(data), data[1])
    IN  IF df.status = "raise" THEN {df}
        ELSE
    LET filtered == filter_loop(df.val[1], filters, 1)
    IN  IF filtered.status = "raise" THEN {filtered}
        ELSE {Ok(Data(to_records(limit_stage(sorted, limit)))) :
                sorted \in sort_stage(select_columns(filtered.val[1], return_columns),
                                      sort_by, sort_desc)}

query_sheet(ws, upstream, filters, return_columns, limit, sort_by, sort_desc) ==
    {except_Exception(out) :
        out \in query_sheet_body(ws, upstream, filters, return_columns, limit,
                                 sort_by, sort_desc)}

(***************************************************************************)
(* Tool calls on the worksheet as it is when the call is made.             *)
(***************************************************************************)
MaxToolCalls == 1      \* calls of the writing tools in one run

AppendValues == { << <<"9", "z">> >> }

\* filter lists given to query_sheet here: none, a clause without 'value',
\* a string where `in` takes a list, an equality
ToolFilters ==
    { <<>>,
      <<[field |-> Some("ID"), operator |-> Some("=="), value |-> None]>>,
      <<Clause("Task", "in", Str("a"))>>,
      <<Clause("ID", "==", Str("1"))>> }

ToolCall(name, args, ended, issued) ==
    tool' = [name |-> name, args |-> args, raised |-> ended.raised,
             result |-> ended.result, issued |-> issued, held |-> None,
             pending |-> FALSE]

UpdateRowById(upstream, id_column, id_value, updates) ==
    /\ calls < MaxToolCalls
    /\ LET done == update_row_by_id(sheet, upstream, id_column, id_value, updates)
       IN  /\ sheet' = done.ws
           /\ ToolCall("update_row_by_id",
                       [NoToolArgs EXCEPT !.upstream = upstream, !.id_column = id_column,
                                          !.id_value = id_value, !.updates = updates],
                       done, done.issued)
    /\ calls' = calls + 1
    /\ UNCHANGED <<mapper, mres, cl, q, auth>>

DeleteRowById(upstream, id_column, id_value) ==
    /\ calls < MaxToolCalls
    /\ LET done == delete_row_by_id(sheet, upstream, id_column, id_value)
       IN  /\ sheet' = done.ws
           /\ ToolCall("delete_row_by_id",
                       [NoToolArgs EXCEPT !.upstream = upstream, !.id_column = id_column,
                                          !.id_value = id_value],
                       done, done.issued)
    /\ calls' = calls + 1
    /\ UNCHANGED <<mapper, mres, cl, q, auth>>

AppendRows(upstream, values) ==
    /\ calls < MaxToolCalls
    /\ LET done == append_rows(sheet, upstream, values)
       IN  /\ sheet' = done.ws
           /\ ToolCall("append_rows",
                       [NoToolArgs EXCEPT !.upstream = upstream, !.values = values],
                       done, done.issued)
    /\ calls' = calls + 1
    /\ UNCHANGED <<mapper, mres, cl, q, auth>>

\* query_sheet with the defaults for return_columns, limit, sort_by, sort_desc
QuerySheet(upstream, filters) ==
    /\ \E ended \in query_sheet(sheet, upstream, filters, None, None, None, FALSE) :
          ToolCall("query_sheet",
                   [NoToolArgs EXCEPT !.upstream = upstream, !.filters = filters],
                   ended, <<>>)
    /\ UNCHANGED <<sheet, mapper, mres, calls, cl, q, auth>>

NextTool ==
    \/ \E u \in Upstream, c \in ColumnNames, v \in ToolValues : FindRowById(u, c, v)
    \/ \E u \in Upstream, c \in ColumnNames, v \in ToolValues, d \in UpdateDicts :
          UpdateRowById(u, c, v, d)
    \/ \E u \in Upstream, c \in ColumnNames, v \in ToolValues : DeleteRowById(u, c, v)
    \/ \E u \in Upstream, vs \in AppendValues : AppendRows(u, vs)
    \/ \E u \in Upstream, f \in ToolFilters : QuerySheet(u, f)

SpecTool == Init /\ [][NextTool]_vars

(***************************************************************************)
(* Properties of the tool boundary.                                        *)
(***************************************************************************)
\* the call just made met a failure inside the handler: the service failed,
\* a named column is not in the header, or a filter clause is malformed
FailureInside ==
    \/ tool.args.upstream # "ok"
    \/ /\ tool.name \in {"update_row_by_id", "delete_row_by_id"}
       /\ tool.issued = <<>>
       /\ tool.result.message = <<>>
    \/ /\ tool.name = "query_sheet"
       /\ tool.result.data = None
    \/ /\ tool.name \in {"find_row_by_id", "update_row_by_id", "delete_row_by_id"}
       /\ sheet # <<>>
       /\ tool.args.id_column \notin Range(sheet[1])
    \/ /\ tool.name = "query_sheet"
       /\ sheet # <<>>
       /\ \E i \in 1..Len(tool.args.filters) : tool.args.filters[i].value = None

Supported ==
    Relational \cup {"in", "not in", "contains", "not contains", "is_null", "not_null"}

\* the clause about to be applied has its three keys
ClauseNext ==
    /\ q.pc = "filters"
    /\ q.filters[q.fi].field # None
    /\ q.filters[q.fi].operator # None
    /\ q.filters[q.fi].value # None

\* C12: a clause (field, operator, value) whose field is not a column of the
\* sheet, or whose operator is not one of the twelve, changes nothing: the
\* frame after it is the frame before it, the query goes on to the next
\* clause or to the projection, and it does not end in an error there.
C12_UnknownFieldOrOperatorIsNoOp ==
    [][ (/\ ClauseNext
         /\ \/ q.filters[q.fi].field[1] \notin Range(sheet[1])
            \/ q.filters[q.fi].operator[1] \notin Supported)
        => /\ q'.df = q.df
           /\ q'.fi = q.fi + 1
           /\ q'.pc = (IF q.fi < Len(q.filters) THEN "filters" ELSE "select")
           /\ q'.result = q.result ]_vars

\* a clause on the missing column Do Date is skipped and the clause after it
\* still drops row A of B, A, a
C12_Witness ==
    /\ q.pc = "done"
    /\ sheet # <<>> /\ sheet[1] = <<"Task", "Status">>
    /\ q.filters = <<Clause("Do Date", "<=", Str("2025-10-27")),
                     Clause("Task", "!=", Str("A"))>>
    /\ q.return_columns = None /\ q.limit = None /\ q.sort_by = None
    /\ q.result.success
    /\ q.result.data = << << <<"Task", "B">>, <<"Status", "">> >>,
                          << <<"Task", "a">>, <<"Status", NA>> >> >>

\* the requested columns the header has, in the order requested
Requested ==
    SelectSeq(q.return_columns[1], LAMBDA col : col \in Range(sheet[1]))

\* the keys of a record, in order
Keys(record) == [c \in 1..Len(record) |-> record[c][1]]

\* C13: with return_columns given, the projection step keeps, for every row,
\* the cells of the requested columns that the header has, in the order
\* requested, and every record returned has exactly those keys in that order;
\* when the header has none of them the frame is left as it is and the
\* records have every column of the header.
C13_ProjectionKeepsRequestedOrder ==
    /\ [][ (q.pc = "select" /\ q.return_columns # None) =>
              IF Requested = <<>> THEN q'.df = q.df
              ELSE /\ q'.df.columns = Requested
                   /\ Len(q'.df.rows) = Len(q.df.rows)
                   /\ \A i \in 1..Len(q.df.rows) : \A c \in 1..Len(Requested) :
                         q'.df.rows[i][c] = Cell(q.df, i, Requested[c]) ]_vars
    /\ [](QueryAnswered /\ q.return_columns # None =>
             \A i \in 1..Len(q.result.data) :
                 Keys(q.result.data[i]) = (IF Requested = <<>> THEN sheet[1] ELSE Requested))

\* Do Date, Nope, Task asked of a sheet with header Task, Do Date: the
\* records hold Do Date then Task
C13_Witness ==
    /\ q.pc = "done"
    /\ sheet # <<>> /\ sheet[1] = <<"Task", "Do Date">>
    /\ q.return_columns = Some(<<"Do Date", "Nope", "Task">>)
    /\ q.filters = <<>> /\ q.sort_by = None /\ q.limit = None
    /\ q.result.success
    /\ q.result.count = 4
    /\ q.result.data[1] = << <<"Do Date", "11/5/2025">>, <<"Task", "D">> >>

\* the record lists whose rows are in the order of the sort_by column of the
\* sheet: the filtered rows sorted by it, then projected and limited
OrderedBySortColumn ==
    LET filtered == FilterChain(SheetFrame.val[1], q.filters, 1)
    IN  {to_records(limit_stage(select_columns(sorted, q.return_columns), q.limit)) :
            sorted \in sort_values(filtered.val[1], q.sort_by[1], ~q.sort_desc)}

\* C14: when sort_by names a column of the header, the records returned are
\* in the order of that column's values (ascending, or descending with
\* sort_desc), whatever the filters and return_columns are.
C14_SortByHeaderColumnAlwaysSorts ==
    (/\ QueryAnswered
     /\ q.sort_by # None
     /\ q.sort_by[1] \in Range(sheet[1]))
    => q.result.data \in OrderedBySortColumn

\* the records of the filtered, projected and limited rows in sheet order
InSheetOrder ==
    LET filtered == FilterChain(SheetFrame.val[1], q.filters, 1)
    IN  to_records(limit_stage(select_columns(filtered.val[1], q.return_columns),
                               q.limit))

\* C15: when sort_by names a column the header does not have, the sort step
\* leaves the frame as it is and the query goes on to the limit; the answer
\* is a success holding the filtered, projected records in sheet order.
C15_AbsentSortColumnIsIgnored ==
    /\ [][ (/\ q.pc = "sort"
            /\ q.sort_by # None
            /\ q.sort_by[1] \notin Range(sheet[1]))
           => q'.df = q.df /\ q'.pc = "limit" /\ q'.result = q.result ]_vars
    /\ []((/\ QueryAnswered
           /\ q.sort_by # None
           /\ q.sort_by[1] \notin Range(sheet[1]))
          => q.result.data = InSheetOrder)

\* sort_by Do Date on a sheet with header Task, Status: B, A, a as in the sheet
C15_Witness ==
    /\ q.pc = "done"
    /\ sheet # <<>> /\ sheet[1] = <<"Task", "Status">>
    /\ q.sort_by = Some("Do Date")
    /\ q.filters = <<>> /\ q.return_columns = None /\ q.limit = None
    /\ q.result.success
    /\ [i \in 1..Len(q.result.data) |-> q.result.data[i][1]]
          = << <<"Task", "B">>, <<"Task", "A">>, <<"Task", "a">> >>

\* the record lists holding the first min(N, total) rows of the sorted result
FirstN ==
    LET filtered == FilterChain(SheetFrame.val[1], q.filters, 1)
        projected == select_columns(filtered.val[1], q.return_columns)
        N == q.limit[1]
    IN  {to_records([sorted EXCEPT !.rows =
                        SubSeq(sorted.rows, 1, IF N < Len(sorted.rows) THEN N
                                               ELSE Len(sorted.rows))]) :
            sorted \in sort_stage(projected, q.sort_by, q.sort_desc)}

\* C16: with limit N >= 0 given, the answer holds exactly the first
\* min(N, total) records of the sorted result, so its count is at most N.
C16_LimitKeepsFirstN ==
    (/\ QueryAnswered
     /\ q.limit # None
     /\ q.limit[1] >= 0)
    => /\ q.result.data \in FirstN
       /\ q.result.count <= q.limit[1]

\* operand occurs in cell as a substring, letter case aside
ContainsIgnoringCase(cell, operand) ==
    LET ca == [i \in 1..Len(Chars[cell]) |-> lower(Chars[cell][i])]
        cb == [i \in 1..Len(Chars[operand]) |-> lower(Chars[operand][i])]
    IN  \E k \in 0..(Len(ca) - Len(cb)) : SubSeq(ca, k + 1, k + Len(cb)) = cb

\* the clause about to be applied is contains / not contains with a string
\* operand, on a column of the frame
ContainsClauseNext ==
    /\ ClauseNext
    /\ q.filters[q.fi].operator[1] \in {"contains", "not contains"}
    /\ q.filters[q.fi].value[1].kind = "str"
    /\ q.filters[q.fi].field[1] \in Range(q.df.columns)

\* the rows a substring test keeps: for contains the rows whose cell is there,
\* not empty and contains the operand; for not contains the other rows
SubstringKept ==
    LET f == q.filters[q.fi]
        k == IndexIn(q.df.columns, f.field[1])
        operand == f.value[1].items[1]
    IN  SelectSeq(q.df.rows,
                  LAMBDA row : (/\ row[k] \notin {NA, ""}
                                /\ ContainsIgnoringCase(row[k], operand))
                               = (f.operator[1] = "contains"))

\* C17: contains keeps exactly the rows whose cell contains the operand as a
\* substring, ignoring case, and not contains keeps exactly the other rows; a
\* row whose cell is empty or missing is dropped by contains and kept by not
\* contains, whatever the operand.
C17_ContainsIsSubstringTest ==
    [][ ContainsClauseNext => q'.df.rows = SubstringKept ]_vars

\* the clause about to be applied is == with a string operand, on a column
\* of the frame
EqualsClauseNext ==
    /\ ClauseNext
    /\ q.filters[q.fi].operator[1] = "=="
    /\ q.filters[q.fi].value[1].kind = "str"
    /\ q.filters[q.fi].field[1] \in Range(q.df.columns)

EqualKept ==
    LET f == q.filters[q.fi]
        k == IndexIn(q.df.columns, f.field[1])
    IN  SelectSeq(q.df.rows, LAMBDA row : row[k] = f.value[1].items[1])

\* C18: an == clause on a column of the sheet keeps exactly the rows whose
\* cell is the operand string, in the order they had, and the count of every
\* answer is the number of records in its data.
C18_EqualsKeepsExactMatches ==
    /\ [][ EqualsClauseNext => q'.df.rows = EqualKept /\ q'.pc # "done" ]_vars
    /\ [](q.pc = "done" => q.result.count = Len(q.result.data))

\* Status == "FALSE" over the rows A/FALSE and B/TRUE: the one record of A
C18_Witness ==
    /\ q.pc = "done"
    /\ q.filters = <<Clause("Status", "==", Str("FALSE"))>>
    /\ q.return_columns = None /\ q.sort_by = None /\ q.limit = None
    /\ q.result.success
    /\ q.result.count = 1
    /\ q.result.data = << << <<"Task", "A">>, <<"Status", "FALSE">>,
                             <<"Do Date", "10/1/2025">> >> >>

(***************************************************************************)
(* Properties of the row accessors on short rows and repeated headers.     *)
(***************************************************************************)
\* the dict d, made from row under header, has every header column as a key
\* and "" for each column at a position past the end of the row
WholeRecord(d, header, row) ==
    \A i \in 1..Len(header) :
        /\ DictHas(d, header[i])
        /\ i > Len(row) => DictGet(d, header[i]) = ""

\* C19: a row shorter than the header reads as having empty trailing cells:
\* the dict of row_to_dict and the row_data of find_row_by_id both hold every
\* header column, with "" for the columns the row does not reach.
C19_ShortRowsReadAsEmptyCells ==
    /\ \A m \in Readers :
          mres[m].op = "row_to_dict" =>
              WholeRecord(mres[m].ret.rows, Self(m).headers, mres[m].args.row_data)
    /\ (tool.name = "find_row_by_id" /\ tool.result.success) =>
          WholeRecord(tool.result.row_data[1], sheet[1],
                      sheet[tool.result.row_number[1]])

Max(S) == CHOOSE n \in S : \A k \in S : k <= n

\* the last 0-based position at which the header holds name
LastPosition(header, name) == Max({i \in 1..Len(header) : header[i] = name}) - 1

\* C20: a name the header holds at several positions resolves to the last of
\* them, in the mapper's column index and in every lookup by name:
\* get_column_index, find_row_by_value and the find_row_by_id tool all read
\* the column at that last position.
C20_DuplicateHeaderResolvesToLast ==
    /\ \A m \in Readers :
          mapper[m] # None =>
              \A name \in Range(Self(m).headers) :
                  get_column_index(Self(m), name)
                      = Some(LastPosition(Self(m).headers, name))
    /\ \A m \in Readers :
          (mres[m].op = "find_row_by_value" /\ mres[m].status = "ok") =>
              LET hits == Matches(Self(m).rows,
                                  LastPosition(Self(m).headers, mres[m].args.name),
                                  mres[m].args.value)
              IN  IF hits = {} THEN mres[m].ret.rows = None
                  ELSE mres[m].ret.rows[1][1] = (Min(hits) - 1) + 2
    /\ (/\ tool.name = "find_row_by_id"
        /\ tool.args.upstream = "ok"
        /\ sheet # <<>>
        /\ tool.args.id_column \in Range(sheet[1])) =>
          LET hits == Matches(Tail(sheet), LastPosition(sheet[1], tool.args.id_column),
                              tool.args.id_value)
          IN  IF hits = {} THEN ~tool.result.success
              ELSE tool.result.row_number = Some((Min(hits) - 1) + 2)

(***************************************************************************)
(* The task tools of server.py on the Tasks worksheet: set_task_status,    *)
(* archive_task and mark_task_complete.  As for update_row_by_id, the part *)
(* of a handler after its read takes the values read (data) and the        *)
(* worksheet as it is when its writes reach it (ws).                       *)
(***************************************************************************)
\* worksheet.update_cell(row, col, value)
update_cell(ws, row, col, value) ==
    LET grown == PadRows(ws, row)
    IN  [grown EXCEPT ![row] = [PadRow(grown[row], col) EXCEPT ![col] = value]]

\* the cell writes of one handler, applied in order from write i on
RECURSIVE update_cell_each(_, _, _)
update_cell_each(ws, writes, i) ==
    IF i > Len(writes) THEN ws
    ELSE update_cell_each(update_cell(ws, writes[i].row, A1Column(writes[i].last),
                                      writes[i].values[1]),
                          writes, i + 1)

\* ws.update_cell(row, col, value) as a write sent to the worksheet
CellWrite(row, col, value) == Write("update_cell", row, col_to_a1(col), <<value>>)

\* header.index(name) if name in header else None
index_or_None(header, name) ==
    IF name \in Range(header) THEN Some(list_index(header, name, 1).val[1]) ELSE None

\* status.upper().strip() on the statuses given here
upper_strip(status) ==
    CASE status = "done" -> "DONE"
      [] status = " open " -> "OPEN"
      [] status = "bogus" -> "BOGUS"
      [] OTHER -> status

\* datetime.now().strftime("%Y-%m-%d") for the clock reading now
strftime_date(now) ==
    CASE now = "2026-01-02 03:04:05" -> "2026-01-02"

\* (prev + " | CANCELED <date>").strip(" |"), on the notes a run can hold
cancel_note(prev, date) ==
    CASE prev = "" /\ date = "2026-01-02" -> "CANCELED 2026-01-02"
      [] prev = "n" /\ date = "2026-01-02" -> "n | CANCELED 2026-01-02"
      [] prev = "CANCELED 2026-01-02" /\ date = "2026-01-02" ->
            "CANCELED 2026-01-02 | CANCELED 2026-01-02"
      [] prev = "n | CANCELED 2026-01-02" /\ date = "2026-01-02" ->
            "n | CANCELED 2026-01-02 | CANCELED 2026-01-02"
      [] prev = "CANCELED 2026-01-02 | CANCELED 2026-01-02" /\ date = "2026-01-02" ->
            "CANCELED 2026-01-02 | CANCELED 2026-01-02 | CANCELED 2026-01-02"
      [] prev = "n | CANCELED 2026-01-02 | CANCELED 2026-01-02" /\ date = "2026-01-02" ->
            "n | CANCELED 2026-01-02 | CANCELED 2026-01-02 | CANCELED 2026-01-02"

\* the branch of set_task_status for the status st: the cell writes it sends,
\* in order, or None for a status that is none of the three
status_writes(st, data, target_row, status_idx, comp_idx, notes_idx, now) ==
    LET to(idx, value) ==
            IF idx = None THEN <<>> ELSE <<CellWrite(target_row, idx[1] + 1, value)>>
        prev == IF notes_idx # None /\ Len(data[target_row]) > notes_idx[1]
                THEN data[target_row][notes_idx[1] + 1] ELSE ""
    IN  CASE st = "OPEN" -> Some(to(status_idx, "FALSE") \o to(comp_idx, ""))
          [] st = "DONE" -> Some(to(status_idx, "TRUE") \o to(comp_idx, now))
          [] st = "CANCELED" ->
                Some(to(status_idx, "FALSE")
                     \o (IF notes_idx = None THEN <<>>
                         ELSE to(notes_idx, cancel_note(prev, strftime_date(now)))))
          [] OTHER -> None

\* set_task_status from `if not data` on
set_task_status_from(data, ws, task_id, status, now) ==
    IF data = <<>> THEN Untouched(ws, Ok(Failure(<<"No tasks found">>)))
    ELSE
    LET header == data[1]
    IN  IF "Task ID" \notin Range(header)
        THEN Untouched(ws, Ok(Failure(<<"Task ID column missing">>)))
        ELSE
    LET id_idx == list_index(header, "Task ID", 1).val[1]
        target_row == target_row_scan(Tail(data), id_idx, task_id, 1)
    IN  IF target_row = None THEN Untouched(ws, Ok(Failure(<<"Task ID not found">>)))
        ELSE
    LET st == upper_strip(status)
        writes == status_writes(st, data, target_row[1], index_or_None(header, "Status"),
                                index_or_None(header, "Completed Date"),
                                index_or_None(header, "Notes"), now)
    IN  IF writes = None
        THEN Untouched(ws, Ok(Failure(<<"Unknown status. Use OPEN|DONE|CANCELED">>)))
        ELSE [out |-> Ok(Success(<<task_id, st>>)),
              ws |-> update_cell_each(ws, writes[1], 1),
              issued |-> writes[1]]

set_task_status_body(ws, upstream, task_id, status, now) ==
    IF upstream # "ok" THEN Untouched(ws, Raise(upstream, <<upstream>>))
    ELSE set_task_status_from(get_all_values(ws), ws, task_id, status, now)

set_task_status(ws, upstream, task_id, status, now) ==
    LET done == set_task_status_body(ws, upstream, task_id, status, now)
        ended == except_Exception(done.out)
    IN  [raised |-> ended.raised, result |-> ended.result, ws |-> done.ws,
         issued |-> done.issued]

\* archive_task up to the values it looks the task up in: the header gains
\* an "Archived" column when it has none, and the worksheet is read again
archive_task_header(ws) ==
    LET data == get_all_values(ws)
    IN  IF data = <<>> \/ "Task ID" \notin Range(data[1]) \/ "Archived" \in Range(data[1])
        THEN [ws |-> ws, issued |-> <<>>, data |-> data]
        ELSE LET header == Append(data[1], "Archived")
                 last == col_to_a1(Len(header))
                 written == WsUpdateRange(ws, 1, last, header)
             IN  [ws |-> written, issued |-> <<Write("update", 1, last, header)>>,
                  data |-> get_all_values(written)]

\* archive_task from the lookup on
archive_task_from(data, ws, task_id) ==
    IF data = <<>> THEN Untouched(ws, Ok(Failure(<<"No tasks found">>)))
    ELSE
    LET header == data[1]
    IN  IF "Task ID" \notin Range(header)
        THEN Untouched(ws, Ok(Failure(<<"Task ID column missing">>)))
        ELSE
    LET id_idx == list_index(header, "Task ID", 1).val[1]
        arch_idx == list_index(header, "Archived", 1)
    IN  IF arch_idx.status = "raise" THEN Untouched(ws, arch_idx)
        ELSE
    LET target_row == target_row_scan(Tail(data), id_idx, task_id, 1)
    IN  IF target_row = None THEN Untouched(ws, Ok(Failure(<<"Task ID not found">>)))
        ELSE LET w == CellWrite(target_row[1], arch_idx.val[1] + 1, "TRUE")
             IN  [out |-> Ok(Success(<<task_id, "archived">>)),
                  ws |-> update_cell_each(ws, <<w>>, 1),
                  issued |-> <<w>>]

\* the loop of mark_task_complete over data[1:], from row i of it on: the
\* first row whose task (index 3) is task_name and whose status (index 2) is
\* 'FALSE'; a row too short for index 3 raises IndexError
RECURSIVE open_task_scan(_, _, _)
open_task_scan(rows, task_name, i) ==
    IF i > Len(rows) THEN Ok(None)
    ELSE IF Len(rows[i]) < 4 THEN Raise("IndexError", <<"list index out of range">>)
    ELSE IF rows[i][4] = task_name /\ rows[i][3] = "FALSE"
         THEN Ok(Some(RowNumberStart + i - 1))
         ELSE open_task_scan(rows, task_name, i + 1)

mark_task_complete_body(ws, upstream, task_name, completed_date, now) ==
    IF upstream # "ok" THEN Untouched(ws, Raise(upstream, <<upstream>>))
    ELSE
    LET date == IF completed_date = "" THEN now ELSE completed_date
        data == get_all_values(ws)
    IN  IF data = <<>> THEN Untouched(ws, Ok(Failure(<<"No tasks found">>)))
        ELSE
    LET found == open_task_scan(Tail(data), task_name, 1)
    IN  IF found.status = "raise" THEN Untouched(ws, found)
        ELSE IF found.val[1] = None
        THEN Untouched(ws, Ok(Failure(<<"Task not found or already complete">>)))
        ELSE LET i == found.val[1][1]
                 writes == <<CellWrite(i, 3, "TRUE"), CellWrite(i, 2, date)>>
             IN  [out |-> Ok(Success(<<"Task marked complete">>)),
                  ws |-> update_cell_each(ws, writes, 1),
                  issued |-> writes]

mark_task_complete(ws, upstream, task_name, completed_date, now) ==
    LET done == mark_task_complete_body(ws, upstream, task_name, completed_date, now)
        ended == except_Exception(done.out)
    IN  [raised |-> ended.raised, result |-> ended.result, ws |-> done.ws,
         issued |-> done.issued]

archive_task_body(ws, upstream, task_id) ==
    IF upstream # "ok" THEN Untouched(ws, Raise(upstream, <<upstream>>))
    ELSE LET read == archive_task_header(ws)
             done == archive_task_from(read.data, read.ws, task_id)
         IN  [done EXCEPT !.issued = read.issued \o done.issued]

archive_task(ws, upstream, task_id) ==
    LET done == archive_task_body(ws, upstream, task_id)
        ended == except_Exception(done.out)
    IN  [raised |-> ended.raised, result |-> ended.result, ws |-> done.ws,
         issued |-> done.issued]

(***************************************************************************)
(* Calls of the task tools, one after another, on a Tasks worksheet.       *)
(***************************************************************************)
MaxTaskCalls == 2      \* calls of the task tools in one run

TaskHeader == <<"Task ID", "Completed Date", "Status", "Task", "Notes">>

\* Tasks worksheets: empty, header only, an open and a completed task, and
\* the same with a second open task of the same name
TaskSheets ==
    { <<>>,
      <<TaskHeader>>,
      <<TaskHeader, <<"T1", "", "FALSE", "Buy milk", "">>,
                    <<"T2", "2026-01-01 00:00:00", "TRUE", "Call", "n">> >>,
      <<TaskHeader, <<"T1", "", "FALSE", "Call", "n">>,
                    <<"T2", "", "FALSE", "Call", "">> >> }

TaskIds == {"T1", "T2", "T9"}
Statuses == {"OPEN", "done", "CANCELED", "bogus"}
TaskNames == {"Buy milk", "Call", "Nothing"}
CompletedDates == {"", "2026-02-03"}
Nows == {"2026-01-02 03:04:05"}

InitTask ==
    /\ sheet \in TaskSheets
    /\ InitIdle

SetTaskStatus(upstream, task_id, status, now) ==
    /\ calls < MaxTaskCalls
    /\ LET done == set_task_status(sheet, upstream, task_id, status, now)
       IN  /\ sheet' = done.ws
           /\ ToolCall("set_task_status",
                       [NoToolArgs EXCEPT !.upstream = upstream, !.id_value = task_id,
                                          !.status = status, !.now = now],
                       done, done.issued)
    /\ calls' = calls + 1
    /\ UNCHANGED <<mapper, mres, cl, q, auth>>

MarkTaskComplete(upstream, task_name, completed_date, now) ==
    /\ calls < MaxTaskCalls
    /\ LET done == mark_task_complete(sheet, upstream, task_name, completed_date, now)
       IN  /\ sheet' = done.ws
           /\ ToolCall("mark_task_complete",
                       [NoToolArgs EXCEPT !.upstream = upstream, !.id_value = task_name,
                                          !.completed_date = completed_date,
                                          !.now = now],
                       done, done.issued)
    /\ calls' = calls + 1
    /\ UNCHANGED <<mapper, mres, cl, q, auth>>

ArchiveTask(upstream, task_id) ==
    /\ calls < MaxTaskCalls
    /\ LET done == archive_task(sheet, upstream, task_id)
       IN  /\ sheet' = done.ws
           /\ ToolCall("archive_task",
                       [NoToolArgs EXCEPT !.upstream = upstream, !.id_value = task_id],
                       done, done.issued)
    /\ calls' = calls + 1
    /\ UNCHANGED <<mapper, mres, cl, q, auth>>

NextTask ==
    \/ \E u \in Upstream, t \in TaskIds, st \in Statuses, now \in Nows :
          SetTaskStatus(u, t, st, now)
    \/ \E u \in Upstream, n \in TaskNames, d \in CompletedDates, now \in Nows :
          MarkTaskComplete(u, n, d, now)
    \/ \E u \in Upstream, t \in TaskIds : ArchiveTask(u, t)

SpecTask == InitTask /\ [][NextTask]_vars

(***************************************************************************)
(* A handler between its read and its writes, with another writer of the   *)
(* same worksheet in between: the handler reads, the other writer inserts  *)
(* or deletes a row, the handler's writes reach the worksheet.             *)
(***************************************************************************)
MaxOtherWrites == 1    \* changes by the other writer in one run

\* reading the worksheet again before the writes
held_values_read_again(data, ws) == get_all_values(ws)

\* the values the handler works from when it writes: those it read
held_values(data, ws) == data

TaskUpdates ==
    { << <<"Task", "x">> >>,
      << <<"Notes", "y">>, <<"Nope", "z">> >> }

NewTaskRow == <<"T0", "", "FALSE", "New", "">>

InFlight(name, args, data, issued) ==
    /\ tool.name = ""
    /\ tool' = [NoTool EXCEPT !.name = name, !.args = args, !.held = Some(data),
                              !.issued = issued, !.pending = TRUE]

\* all_values = worksheet.get_all_values() of update_row_by_id
ReadForUpdateRowById(id_column, id_value, updates) ==
    /\ InFlight("update_row_by_id",
                [NoToolArgs EXCEPT !.upstream = "ok", !.id_column = id_column,
                                   !.id_value = id_value, !.updates = updates],
                get_all_values(sheet), <<>>)
    /\ UNCHANGED <<sheet, mapper, mres, calls, cl, q, auth>>

\* data = ws.get_all_values() of set_task_status
ReadForSetTaskStatus(task_id, status, now) ==
    /\ InFlight("set_task_status",
                [NoToolArgs EXCEPT !.upstream = "ok", !.id_value = task_id,
                                   !.status = status, !.now = now],
                get_all_values(sheet), <<>>)
    /\ UNCHANGED <<sheet, mapper, mres, calls, cl, q, auth>>

\* archive_task up to its last read
ReadForArchiveTask(task_id) ==
    /\ LET read == archive_task_header(sheet)
       IN  /\ InFlight("archive_task",
                       [NoToolArgs EXCEPT !.upstream = "ok", !.id_value = task_id],
                       read.data, read.issued)
           /\ sheet' = read.ws
    /\ UNCHANGED <<mapper, mres, calls, cl, q, auth>>

\* another writer inserts a row above row r
OtherInsertsRow(r) ==
    /\ tool.pending
    /\ calls < MaxOtherWrites
    /\ r \in 2..Len(sheet)
    /\ sheet' = SubSeq(sheet, 1, r - 1) \o <<NewTaskRow>> \o SubSeq(sheet, r, Len(sheet))
    /\ calls' = calls + 1
    /\ UNCHANGED <<mapper, mres, tool, cl, q, auth>>

\* another writer deletes row r
OtherDeletesRow(r) ==
    /\ tool.pending
    /\ calls < MaxOtherWrites
    /\ r \in 2..Len(sheet)
    /\ sheet' = WsDeleteRows(sheet, r)
    /\ calls' = calls + 1
    /\ UNCHANGED <<mapper, mres, tool, cl, q, auth>>

Landed(done) ==
    LET ended == except_Exception(done.out)
    IN  /\ sheet' = done.ws
        /\ tool' = [tool EXCEPT !.raised = ended.raised, !.result = ended.result,
                                !.issued = tool.issued \o done.issued,
                                !.pending = FALSE]
        /\ UNCHANGED <<mapper, mres, calls, cl, q, auth>>

\* update_row_by_id from its read to its return
WriteUpdateRowById ==
    /\ tool.pending /\ tool.name = "update_row_by_id"
    /\ Landed(update_row_by_id_from(held_values(tool.held[1], sheet), sheet,
                                    tool.args.id_column, tool.args.id_value,
                                    tool.args.updates))

\* set_task_status from its read to its return
WriteSetTaskStatus ==
    /\ tool.pending /\ tool.name = "set_task_status"
    /\ Landed(set_task_status_from(held_values(tool.held[1], sheet), sheet,
                                   tool.args.id_value, tool.args.status,
                                   tool.args.now))

\* archive_task from its last read to its return
WriteArchiveTask ==
    /\ tool.pending /\ tool.name = "archive_task"
    /\ Landed(archive_task_from(held_values(tool.held[1], sheet), sheet,
                                tool.args.id_value))

NextStale ==
    \/ \E t \in TaskIds, d \in TaskUpdates : ReadForUpdateRowById("Task ID", t, d)
    \/ \E t \in TaskIds, st \in Statuses, now \in Nows : ReadForSetTaskStatus(t, st, now)
    \/ \E t \in TaskIds : ReadForArchiveTask(t)
    \/ \E r \in 2..4 : OtherInsertsRow(r)
    \/ \E r \in 2..4 : OtherDeletesRow(r)
    \/ WriteUpdateRowById
    \/ WriteSetTaskStatus
    \/ WriteArchiveTask

SpecStale == InitTask /\ [][NextStale]_vars

\* the sheet row of the first row of data that holds id in its id column
FirstRowHolding(data, id_column, id) ==
    RowNumberStart
      + Min(Matches(Tail(data), FirstPosition(data[1], id_column), id)) - 1

\* whether the values read hold a row for the call's id
FoundIn(data, id_column, id) ==
    /\ data # <<>>
    /\ id_column \in Range(data[1])
    /\ Matches(Tail(data), FirstPosition(data[1], id_column), id) # {}

IdColumn == IF tool.name = "update_row_by_id" THEN tool.args.id_column ELSE "Task ID"

\* C22: no check guards a write against a worksheet that changed since it
\* was read.  A handler that has read the worksheet writes to the row number
\* its id had in the values it read, whatever another writer has inserted or
\* deleted since: every write to a data row goes to that row number, and the
\* call succeeds whenever the values read held the id (and the status and
\* the updated columns are known), without looking at the worksheet again.
C22_WritesGoToTheRowNumberRead ==
    (tool.name \in {"update_row_by_id", "set_task_status", "archive_task"}
     /\ tool.held # None /\ ~tool.pending) =>
        LET data == tool.held[1]
            found == FoundIn(data, IdColumn, tool.args.id_value)
            known ==
                /\ tool.name = "set_task_status" =>
                      upper_strip(tool.args.status) \in {"OPEN", "DONE", "CANCELED"}
                /\ \A k \in 1..Len(tool.args.updates) :
                      tool.args.updates[k][1] \in Range(data[1])
        IN  /\ tool.result.success = (found /\ known)
            /\ tool.result.success =>
                  \E i \in 1..Len(tool.issued) : tool.issued[i].row >= RowNumberStart
            /\ \A i \in 1..Len(tool.issued) :
                  tool.issued[i].row >= RowNumberStart =>
                      /\ found
                      /\ tool.issued[i].row =
                            FirstRowHolding(data, IdColumn, tool.args.id_value)

\* set_task_status("T2") read T2 in row 3, another writer inserted or deleted
\* a row, and the status was written to row 3, which holds another task
C22_Witness ==
    /\ tool.name = "set_task_status" /\ ~tool.pending
    /\ tool.result.success
    /\ tool.args.id_value = "T2"
    /\ calls = 1
    /\ tool.issued # <<>>
    /\ tool.issued[1].row = 3
    /\ CellAt(sheet, 3, 1) # "T2"
    /\ CellAt(tool.held[1], 3, 1) = "T2"

(***************************************************************************)
(* One mapper under both its reads and its writes.                         *)
(***************************************************************************)
NextMapper ==
    \/ \E m \in Readers : Construct(m)
    \/ \E m \in Readers, c \in ColumnNames :
          \E r \in (IF mapper[m] # None THEN RowDatas(Self(m)) ELSE {}) :
              GetCellValue(m, r, c)
    \/ \E m \in Readers, c \in ColumnNames : RequireColumn(m, c)
    \/ \E m \in Readers, c \in ColumnNames, v \in CellValues : FindRowByValue(m, c, v)
    \/ \E m \in Readers, c \in ColumnNames, v \in CellValues : FindAllRowsByValue(m, c, v)
    \/ \E m \in Readers :
          \E r \in (IF mapper[m] # None THEN RowDatas(Self(m)) ELSE {}) :
              RowToDict(m, r)
    \/ \E m \in Readers, r \in RowNumbers, u \in UpdateDicts : UpdateCells(m, r, u)
    \/ \E m \in Readers, d \in UpdateDicts : AppendRow(m, d)

SpecMapper == Init /\ [][NextMapper]_vars

\* the headers, column map and rows a mapper derives from the values it read
BuiltFrom(self) ==
    /\ self.headers = self.data[1]
    /\ self.column_map = column_map_from(self.data[1], 1, <<>>)
    /\ self.rows = Tail(self.data)

\* C21: a mapper's snapshot never changes after construction.  No read and
\* no write of the mapper changes its headers, column_map or rows: once
\* built, the mapper is the same object after every step, whatever has been
\* written to the worksheet since, and its three fields are those built from
\* the values read at construction.
C21_SnapshotIsImmutable ==
    /\ [][\A m \in Mappers : mapper[m] # None => mapper'[m] = mapper[m]]_vars
    /\ [](\A m \in Mappers : mapper[m] # None => BuiltFrom(Self(m)))

\* a mapper that has written to the worksheet and no longer matches it
C21_Witness ==
    /\ mapper["m1"] # None
    /\ mres["m1"].op \in {"update_cells", "append_row"}
    /\ mres["m1"].issued # <<>>
    /\ calls = MaxCalls
    /\ Self("m1").data # get_all_values(sheet)

\* C23: update_row_by_id only updates the specified columns.  After a
\* successful update_row_by_id, every cell of the target row whose column is
\* not a key of updates holds the content the worksheet held immediately
\* before the write: a formula cell is still a formula.
C23_UpdateRowByIdKeepsOtherCells ==
    [][(/\ calls' = calls + 1
        /\ tool'.name = "update_row_by_id"
        /\ tool'.result.success) =>
            LET r == tool'.issued[1].row
            IN  \A c \in 1..Len(sheet[1]) :
                    sheet[1][c] \notin DictKeys(tool'.args.updates) =>
                        CellAt(sheet', r, c) = CellAt(sheet, r, c)]_vars

\* a lookup of the call (name, args) on the worksheet ws that cannot succeed:
\* the worksheet is empty, the id column or an updated column is not in the
\* header, or no row holds the id
LookupFails(ws, name, args) ==
    LET all_values == get_all_values(ws)
    IN  \/ all_values = <<>>
        \/ args.id_column \notin Range(all_values[1])
        \/ /\ name = "update_row_by_id"
           /\ \E k \in 1..Len(args.updates) : args.updates[k][1] \notin Range(all_values[1])
        \/ Matches(Tail(all_values), FirstPosition(all_values[1], args.id_column),
                   args.id_value) = {}

\* C24: a failed lookup changes nothing.  When the worksheet is empty, the
\* id column or an updated column is missing from the header, or no row
\* matches the id, update_row_by_id, delete_row_by_id and find_row_by_id
\* return success = false with an error, issue no update or delete, and the
\* worksheet is cell for cell what it was before the call.
C24_FailedLookupChangesNothing ==
    [][(/\ tool' # tool \/ calls' # calls
        /\ tool'.name \in {"update_row_by_id", "delete_row_by_id", "find_row_by_id"}
        /\ tool'.args.upstream = "ok"
        /\ LookupFails(sheet, tool'.name, tool'.args)) =>
            /\ ~tool'.result.success
            /\ tool'.result.error # <<>>
            /\ tool'.issued = <<>>
            /\ sheet' = sheet]_vars

\* a delete_row_by_id for an id no row holds, and an update_row_by_id naming
\* a column the header does not have, on a worksheet with data rows
C24_Witness ==
    /\ calls = 1
    /\ Len(sheet) > 2
    /\ tool.args.upstream = "ok"
    /\ tool.args.id_column = "ID"
    /\ "ID" \in Range(sheet[1])
    /\ ~tool.result.success
    /\ tool.issued = <<>>
    /\ \/ /\ tool.name = "delete_row_by_id"
          /\ tool.args.id_value = "a"
          /\ Matches(Tail(sheet), 0, "a") = {}
       \/ /\ tool.name = "update_row_by_id"
          /\ tool.args.id_value = "1"
          /\ Matches(Tail(sheet), 0, "1") # {}
          /\ DictHas(tool.args.updates, "Nope")

(***************************************************************************)
(* GoogleAuthManager (auth_manager.py): the credentials loaded from the    *)
(* environment, refreshed when asked for.                                  *)
(***************************************************************************)
MaxAuthCalls == 3      \* calls of get_credentials / is_authenticated in one run

\* GOOGLE_TOKEN_JSON: unset, set to text json.loads or
\* Credentials.from_authorized_user_info rejects, or set to a token
EnvTokens ==
    {[set |-> FALSE, loads |-> FALSE, info |-> NoCredentials],
     [set |-> TRUE, loads |-> FALSE, info |-> NoCredentials]}
    \cup {[set |-> TRUE, loads |-> TRUE,
           info |-> [token |-> t, expired |-> e, refresh_token |-> r]] :
            t \in BOOLEAN, e \in BOOLEAN, r \in BOOLEAN}

\* how the token endpoint answers credentials.refresh(GoogleRequest())
RefreshRequests == {"ok", "RefreshError"}

\* GoogleAuthManager._load_credentials: self.credentials afterwards
load_credentials(env) ==
    IF env.set /\ env.loads THEN Some(env.info) ELSE None

\* Credentials.valid: a token that has not expired
valid(credentials) == credentials.token /\ ~credentials.expired

\* GoogleAuthManager._refresh_if_needed: what it returns and self.credentials
\* afterwards
refresh_if_needed(credentials, request) ==
    IF credentials # None /\ credentials[1].expired /\ credentials[1].refresh_token
    THEN IF request = "ok"
         THEN [ret |-> TRUE,
               credentials |-> Some([credentials[1] EXCEPT !.token = TRUE,
                                                           !.expired = FALSE])]
         ELSE [ret |-> FALSE, credentials |-> credentials]
    ELSE [ret |-> TRUE, credentials |-> credentials]

\* GoogleAuthManager.get_credentials: its outcome and self.credentials afterwards
get_credentials(credentials, request) ==
    IF credentials = None \/ ~valid(credentials[1])
    THEN LET refreshed == refresh_if_needed(credentials, request)
         IN  IF ~refreshed.ret
             THEN [out |-> Raise("Exception", <<"No valid credentials. Visit /oauth/start to authorize">>),
                   credentials |-> refreshed.credentials]
             ELSE [out |-> Ok(refreshed.credentials), credentials |-> refreshed.credentials]
    ELSE [out |-> Ok(credentials), credentials |-> credentials]

\* GoogleAuthManager.is_authenticated
is_authenticated(credentials, request) ==
    LET got == get_credentials(credentials, request)
    IN  [ret |-> got.out.status = "ok", credentials |-> got.credentials]

InitAuth ==
    /\ sheet = <<>>
    /\ InitIdle

\* auth_manager = GoogleAuthManager()
AuthManagerInit(env) ==
    /\ ~auth.built
    /\ auth' = [NoAuth EXCEPT !.built = TRUE, !.op = "__init__",
                              !.credentials = load_credentials(env)]
    /\ UNCHANGED <<sheet, mapper, mres, calls, tool, cl, q>>

\* time passes and the token's expiry is reached
TokenExpires ==
    /\ auth.built
    /\ auth.credentials # None
    /\ ~auth.credentials[1].expired
    /\ auth' = [auth EXCEPT !.credentials = Some([@[1] EXCEPT !.expired = TRUE])]
    /\ UNCHANGED <<sheet, mapper, mres, calls, tool, cl, q>>

GetCredentials(request) ==
    /\ auth.built
    /\ auth.seq < MaxAuthCalls
    /\ LET got == get_credentials(auth.credentials, request)
       IN  auth' = [auth EXCEPT !.op = "get_credentials", !.request = request,
                                !.credentials = got.credentials,
                                !.raised = got.out.status = "raise",
                                !.returned = IF got.out.status = "ok"
                                             THEN got.out.val[1] ELSE None,
                                !.answer = FALSE,
                                !.seq = @ + 1]
    /\ UNCHANGED <<sheet, mapper, mres, calls, tool, cl, q>>

IsAuthenticated(request) ==
    /\ auth.built
    /\ auth.seq < MaxAuthCalls
    /\ LET got == is_authenticated(auth.credentials, request)
       IN  auth' = [auth EXCEPT !.op = "is_authenticated", !.request = request,
                                !.credentials = got.credentials,
                                !.raised = FALSE,
                                !.returned = None,
                                !.answer = got.ret,
                                !.seq = @ + 1]
    /\ UNCHANGED <<sheet, mapper, mres, calls, tool, cl, q>>

NextAuth ==
    \/ \E env \in EnvTokens : AuthManagerInit(env)
    \/ TokenExpires
    \/ \E request \in RefreshRequests : GetCredentials(request)
    \/ \E request \in RefreshRequests : IsAuthenticated(request)

SpecAuth == InitAuth /\ [][NextAuth]_vars

\* C25: get_credentials returns only credentials that are present and valid
\* and raises otherwise; is_authenticated answers True only when valid
\* credentials are held, and False when no token was loaded or the held
\* credentials are invalid and cannot be refreshed.
C25_OnlyValidCredentialsAreReturned ==
    /\ (auth.op = "get_credentials" /\ ~auth.raised) =>
          auth.returned # None /\ valid(auth.returned[1])
    /\ (auth.op = "get_credentials" /\ auth.raised) =>
          auth.credentials = None \/ ~valid(auth.credentials[1])
    /\ (auth.op = "is_authenticated" /\ auth.answer) =>
          auth.credentials # None /\ valid(auth.credentials[1])
    /\ (auth.op = "is_authenticated" /\ ~auth.answer) =>
          auth.credentials = None \/ ~valid(auth.credentials[1])

\* C26: no mapper write addresses the header.  update_cells rejects any
\* row_number below 2 with an error and without writing, so after every
\* mapper write the header row of the worksheet is what it was.
C26_MapperWritesNeverTouchTheHeader ==
    [][/\ \A m \in Mappers :
            (/\ mres'[m].seq = calls + 1
             /\ calls' = calls + 1
             /\ mres'[m].op = "update_cells"
             /\ mres'[m].args.row < RowNumberStart) =>
                /\ mres'[m].status = "raise"
                /\ mres'[m].issued = <<>>
                /\ sheet' = sheet
       /\ Len(sheet) >= 1 => Len(sheet') >= 1 /\ sheet'[1] = sheet[1]]_vars

\* C27: update_cells is all-or-nothing with respect to unknown columns.  If
\* any key of updates is not a header column, the call raises ValueError and
\* no cell of the worksheet has been written, wherever the unknown key stands
\* among the updates.
C27_UnknownColumnWritesNothing ==
    [][\A m \in Mappers :
          (/\ mres'[m].seq = calls + 1
           /\ calls' = calls + 1
           /\ mres'[m].op = "update_cells"
           /\ \E i \in 1..Len(mres'[m].args.items) :
                 ~has_column(Self(m), mres'[m].args.items[i][1])) =>
              /\ mres'[m].status = "raise"
              /\ mres'[m].exc = "ValueError"
              /\ mres'[m].issued = <<>>
              /\ sheet' = sheet]_vars

\* C28: on one mapper, successive append_row calls write to distinct,
\* strictly increasing row numbers, so a later append never overwrites a row
\* appended earlier through the same mapper: an append_row that follows an
\* append_row of the same mapper returns a higher row number.
C28_SuccessiveAppendsGoToNewRows ==
    [][\A m \in Mappers :
          (/\ mres[m].op = "append_row" /\ mres[m].status = "ok"
           /\ mres'[m].seq = calls + 1
           /\ calls' = calls + 1
           /\ mres'[m].op = "append_row" /\ mres'[m].status = "ok") =>
              mres'[m].ret.int[1] > mres[m].ret.int[1]]_vars

\* the cell of data row r in the column the header calls name
TaskCell(r, name) == CellAt(sheet, r, FirstPosition(sheet[1], name) + 1)

\* C29: after any sequence of set_task_status and mark_task_complete calls
\* on a worksheet that has Status and Completed Date columns, every task
\* row's Status is TRUE if and only if its Completed Date is non-empty; an
\* unknown status value returns an error and writes nothing.
C29_StatusTrueIffCompletedDate ==
    /\ Len(sheet) >= 1 =>
          \A r \in RowNumberStart..Len(sheet) :
              (TaskCell(r, "Status") = "TRUE") <=> (TaskCell(r, "Completed Date") # "")
    /\ (/\ tool.name = "set_task_status"
        /\ upper_strip(tool.args.status) \notin {"OPEN", "DONE", "CANCELED"}) =>
            /\ ~tool.result.success
            /\ tool.result.error # <<>>
            /\ tool.issued = <<>>

(***************************************************************************)
(* update_row_by_id on rows of every width up to MaxWidth.                 *)
(***************************************************************************)
MaxWidth == 50         \* cells in the widest row

\* a worksheet of one data row, n cells wide: header ID, c, c, ...
WideSheet(n) ==
    << [c \in 1..n |-> IF c = 1 THEN "ID" ELSE "c"],
       [c \in 1..n |-> IF c = 1 THEN "1" ELSE "v"] >>

InitWide ==
    /\ sheet \in {WideSheet(n) : n \in 1..MaxWidth}
    /\ InitIdle

NextWide ==
    \E u \in Upstream, v \in {"1", "2"}, d \in {<<>>, << <<"ID", "1">> >>} :
        UpdateRowById(u, "ID", v, d)

SpecWide == InitWide /\ [][NextWide]_vars

\* C30: the range update_row_by_id writes is A<r>:<L><r> where L is the
\* column letter of the written row's length, col_to_a1(len(row)), for every
\* row length from 1 on, lengths above 26 included: a call that found its
\* row sent one update of that range, holding the whole row.
C30_RangeEndsAtTheRowsLastColumn ==
    (/\ tool.name = "update_row_by_id"
     /\ tool.args.upstream = "ok"
     /\ tool.args.id_value = "1") =>
        /\ Len(tool.issued) = 1
        /\ tool.issued[1].values = get_all_values(sheet)[tool.issued[1].row]
        /\ tool.issued[1].last = col_to_a1(Len(tool.issued[1].values))

====
